---- MODULE Spec2Model ----
(*******************************************************************************)
(* A model of the secure-cloud-syncer daemon (secure_cloud_syncer/manager.py *)
(* and secure_cloud_syncer/sync/monitor.py) and of the CLI's part in it      *)
(* (secure_cloud_syncer/cli.py).                                             *)
(*                                                                           *)
(* The specifications that share the module:                                 *)
(*   SpecHandler  one ChangeHandler (monitor.py) with its observer thread,   *)
(*                a clock, file events and executor runs: the debounce       *)
(*                logic of on_any_event / sync_directory;                    *)
(*   Spec         one daemon process: the task registry, reload_config,      *)
(*                SyncTask start/stop, the task observers and the executor   *)
(*                runs they make, and the replacement of a killed daemon;    *)
(*   SpecProc     daemon processes racing through main(): duplicate          *)
(*                cleanup, the PID file, the stop flag, the signals and      *)
(*                the watchdog thread; SpecProcFair adds the scheduling      *)
(*                of the threads of the live processes;                      *)
(*   SpecSup      the threads of one daemon around the registry lock:        *)
(*                reload passes, the health-check thread and a status        *)
(*                query; SpecSupFair adds the scheduling of the threads;     *)
(*   SpecCfg      the config file between the CLI's save_config and the      *)
(*                daemon's reload_config;                                    *)
(*   SpecFilter   the handler of SpecHandler under events of every kind      *)
(*                the filter of on_any_event tells apart;                    *)
(*   SpecStop     the daemon of Spec with its graceful shutdown               *)
(*                (SyncManager.stop from the signal handler);                *)
(*   SpecRace     up to MaxRace daemon processes started by hand while       *)
(*                another one runs or shuts down;                            *)
(*   SpecIso      one daemon, two task names, the passes of reload_config    *)
(*                with starts that fail;                                     *)
(*   SpecTwo      one daemon, two task names and their file events;          *)
(*   SpecStart    the daemon of Spec with config entries edited by hand      *)
(*                (an entry without local_dir);                              *)
(*   SpecCw       the daemon of Spec with a clock and the debounce of        *)
(*                ConfigWatcher.on_modified;                                 *)
(*   SpecPid      the processes of SpecProc with save_pid in its steps       *)
(*                and the content of the PID file;                           *)
(*   SpecFinal    the shutdown of SpecStop with a SIGHUP that arrives        *)
(*                inside SyncManager.stop;                                   *)
(*   SpecTwin     two daemon processes started together, with signals        *)
(*                delivered some time after they were sent.                  *)
(*******************************************************************************)
EXTENDS Integers, Sequences, FiniteSets, TLC

\* ------------------------------------------------------------------ bounds
\* debounce_time of the task under study, in clock ticks
Debounce == 2
\* how far the clock runs past the start time
Horizon == 4
\* events the observer's queue holds at most
MaxQueue == 2
\* file events that arrive at most in one behaviour
MaxEvents == 2
\* config-file modification events that wait at most
MaxCfgEvents == 1
\* executor failures recorded per task at most
MaxFailures == 1
\* file events that wait at most in a task observer's queue (Spec)
MaxWaiting == 1
\* SpecProc: daemon processes ever started
MaxProcs == 2
\* SpecProc: signals the CLI sends
MaxSignals == 1
\* the debounce window of the ConfigWatcher, in seconds (manager.py, line 93)
CfgDebounce == 1
\* SpecCw: how far the ConfigWatcher's clock runs past its start
CfgHorizon == 3
\* SpecCw: modification events of the config directory in one behaviour
MaxCfgWrites == 2
\* SpecRace: daemon processes ever started
MaxRace == 4

\* time.time() is far larger than any debounce_time, so that the first event
\* of a handler (last_sync = 0) is never inside the debounce window.
StartTime == Debounce
CfgStart == CfgDebounce + 1
CfgMaxTime == CfgStart + CfgHorizon
MaxTime == StartTime + Horizon

VARIABLES
    \* ---- SpecHandler
    now,        \* the clock (time.time())
    handler,    \* the ChangeHandler's fields
    hrun,       \* the executor run the handler is blocked in: "none", "initial", "event", "chained"
    observing,  \* the handler's observer has been started (start_monitoring returned)
    evq,        \* the observer's event queue (events wait while a handler call runs)
    hcfg,       \* the task's entry of the config file, as the CLI wrote it
    hist,       \* history: arrivals of relevant events, starts and ends of executor runs
    arrived     \* the number of file events that have arrived

vars_h == <<now, handler, hrun, observing, evq, hist, arrived, hcfg>>

VARIABLES
    \* ---- Spec
    config,     \* the config file: the "syncs" of scs_config.json
    cfgEvents,  \* modification events of the config file not yet handled by the ConfigWatcher
    running,    \* SyncManager.running
    mainpc,     \* the main thread: "boot" (before manager.start()) or "run"
    lock,       \* SyncManager.lock: "free" or the thread that holds it
    rc,         \* per thread: where it is in reload_config, with its local variables
    tasks,      \* SyncManager.tasks: name -> the SyncTask object (0: no entry)
    objs,       \* the SyncTask objects that exist, each with its observer and handler
    orphans,    \* names with an executor process that outlived the daemon which started it
    pre,        \* the registry and the objects as they were when the running pass took the lock
    health,     \* the health-check thread: "started", "on", "ended", "dead"
    lastStatus, \* what the last status query returned (NoStatus: no query yet)
    cfgfile,    \* the config file on disk: "whole", "cut" (opened for writing, its document
                \* not yet written out), "garbage" (not a JSON document), "missing"
    cliw        \* the CLI's save_config in progress, with the document it is writing

vars_m == <<config, cfgEvents, running, mainpc, lock, rc, tasks, objs, orphans, pre, health, lastStatus,
            cfgfile, cliw>>

VARIABLES
    \* ---- SpecProc
    ppc,        \* per daemon process: where its main thread is ("none": not started)
    pidfile,    \* PID_FILE: 0 (absent) or the pid it holds
    pidtmp,     \* PID_FILE.tmp: 0 (absent) or the pid it holds
    stopflag,   \* STOP_FLAG_FILE exists
    psig,       \* per process: a SIGTERM is pending
    preg,       \* per process: its registry: "none" (no manager), "empty", "loaded"
    pexit,      \* per process: how it ended: "none", "0", "1", "killed"
    pscan,      \* per process: the processes its duplicate scan has still to visit
    pterm,      \* per process: the duplicate it has terminated and waits for (0: none)
    held,       \* per process: the daemon that held the instance lock when it was started,
                \* and the daemon processes its duplicate scan listed (seen),
                \* with that daemon's registry (history)
    clistart,   \* cli.py start_service: "idle", or "checked" (between its check and its Popen)
    pwd,        \* per process: its watchdog thread: "none", "started", "on", "ended"
    phup,       \* per process: a SIGHUP is pending
    nsig,       \* the signals the CLI has sent so far
    plimit      \* the number of daemon processes that may be started in all

vars_p == <<ppc, pidfile, pidtmp, stopflag, psig, preg, pexit, pscan, pterm, held, clistart, pwd, phup, nsig,
            plimit>>

VARIABLES
    \* ---- SpecCw
    wnow,           \* the clock the ConfigWatcher reads (time.time()), in seconds
    last_modified,  \* ConfigWatcher.last_modified
    wq,             \* the config observer's queue: modification events of the config directory
    wlog            \* history: the config-file events on_modified has handled

vars_w == <<wnow, last_modified, wq, wlog>>
vars == <<vars_h, vars_m, vars_p, vars_w>>

\* ------------------------------------------------- monitor.py: ChangeHandler

EventKinds == {"file", "dir"}

\* ChangeHandler.__init__: the fields as they are before the initial sync
NewHandler(direction, debounce_time) ==
    [direction |-> direction,
     debounce_time |-> debounce_time,
     last_sync |-> 0,
     sync_pending |-> FALSE,
     sync_in_progress |-> FALSE,
     initial_sync_done |-> FALSE]

\* (faulty variant) only the directory events return early
FilteredDirsOnly(kind) == kind = "dir"

\* on_any_event, lines 145-158: the events that return before the state machine
Filtered(kind) == kind \in {"dir", "backup", "hidden", "outside"}

\* what the spec calls a change: not a directory event, not a temporary or
\* editor-backup file, not outside the watched root
Relevant(kind) == kind \notin {"dir", "backup", "hidden", "tmp", "outside"}

\* sync_directory, lines 183-187: the guard and the flag
SyncEnter(h) ==
    IF h.sync_in_progress THEN [h |-> h, started |-> FALSE]
    ELSE [h |-> [h EXCEPT !.sync_in_progress = TRUE], started |-> TRUE]

\* sync_directory, lines 189-237: the executor call made
SyncCmd(h, initial_sync) ==
    IF h.direction = "bidirectional"
    THEN [prog |-> "bisync", resync |-> initial_sync]
    ELSE [prog |-> "sync", resync |-> FALSE]

\* sync_directory, lines 249-257, after the executor returned: either the
\* chained call (which enters sync_directory again) or the finally clause
SyncExit(h) ==
    IF h.sync_pending
    THEN [h |-> SyncEnter([h EXCEPT !.sync_pending = FALSE, !.sync_in_progress = FALSE]).h,
          chained |-> TRUE]
    ELSE [h |-> [h EXCEPT !.sync_in_progress = FALSE], chained |-> FALSE]

\* (faulty variant) sync_in_progress is one flag for the handlers of all tasks
OnAnyEventShared(h, kind, current_time) ==
    IF Filtered(kind) THEN [h |-> h, started |-> FALSE]
    ELSE IF current_time - h.last_sync < h.debounce_time
    THEN [h |-> [h EXCEPT !.sync_pending = TRUE], started |-> FALSE]
    ELSE LET h1 == [h EXCEPT !.sync_pending = FALSE, !.last_sync = current_time]
         IN  IF h1.sync_in_progress \/ \E j \in DOMAIN objs : objs[j].run # "none"
             THEN [h |-> [h1 EXCEPT !.sync_pending = TRUE], started |-> FALSE]
             ELSE SyncEnter(h1)

\* on_any_event, lines 138-174, up to the call of sync_directory
OnAnyEvent(h, kind, current_time) ==
    IF Filtered(kind) THEN [h |-> h, started |-> FALSE]
    ELSE IF current_time - h.last_sync < h.debounce_time
    THEN [h |-> [h EXCEPT !.sync_pending = TRUE], started |-> FALSE]
    ELSE LET h1 == [h EXCEPT !.sync_pending = FALSE, !.last_sync = current_time]
         IN  IF h1.sync_in_progress
             THEN [h |-> [h1 EXCEPT !.sync_pending = TRUE], started |-> FALSE]
             ELSE SyncEnter(h1)

\* ------------------------------------------------------ manager.py: SyncTask

\* the task names in use (the names the config file may hold) and the order a
\* pass goes through them
Names == DOMAIN config
NameSeq == IF Names = {"a"} THEN <<"a">> ELSE <<"a", "b">>
Dirs == {"d1", "d2"}

\* a task's entry of the config file as cli.add_sync writes it (the fields
\* the daemon's decisions depend on); NoConfig: the name is not in the file
TaskConfig == [local_dir : Dirs, status : {"active", "paused"}]
NoConfig == [local_dir |-> "none", status |-> "none"]

\* cli.py add_sync, lines 227-235: the entry written for a new task (of the
\* fields the daemon reads)
Modes == {"bidirectional", "upload"}
AddSyncEntry(d, mode) ==
    [local_dir |-> d, mode |-> mode, debounce_time |-> Debounce, status |-> "active"]

\* SyncTask.start, lines 138-139: config.get(key, default)
DebounceOf(c) == IF "debounce_time" \in DOMAIN c THEN c.debounce_time ELSE Debounce
DirectionOf(c) == IF "direction" \in DOMAIN c THEN c.direction ELSE "bidirectional"

NoHandler == [NewHandler("none", 0) EXCEPT !.last_sync = 0]

\* no object
NoObj ==
    [name |-> "none", config |-> NoConfig, observer |-> "None",
     start_time |-> FALSE, last_error |-> FALSE, error_count |-> 0, restart_count |-> 0,
     handler |-> NoHandler, run |-> "none", evq |-> 0,
     failures |-> 0, paused |-> FALSE]

\* SyncTask.__init__ (name: the registry key the object is made for; history,
\* not fields of the program: failures, the executor runs that failed since
\* the task started; paused, a pass stopped the task's watcher for a paused
\* status)
SyncTask(name, c) == [NoObj EXCEPT !.name = name, !.config = c]

\* (faulty variant) running is taken from the start time, not from the observer
IsRunningSinceStart(o) == o.start_time

\* SyncTask.is_running
IsRunning(o) == o.observer # "None"

\* SyncTask.get_status
TaskStatus(o) ==
    [running |-> IsRunning(o), start_time |-> o.start_time, last_error |-> o.last_error,
     error_count |-> o.error_count, restart_count |-> o.restart_count]

\* (faulty variant) stop ends the executor run the observer thread is in
StopSignalKills(o) ==
    IF o.observer = "alive" THEN [o EXCEPT !.observer = "stopping", !.evq = 0, !.run = "none"] ELSE o

\* SyncTask.stop, lines 176-178: observer.stop() asks the observer thread to
\* end; the thread finishes the handler call it is in, the queue is dropped
StopSignal(o) ==
    IF o.observer = "alive" THEN [o EXCEPT !.observer = "stopping", !.evq = 0] ELSE o

\* SyncTask.stop, lines 179-182: observer.join() has returned
StopJoined(o) ==
    IF o.observer = "stopping" THEN [o EXCEPT !.observer = "None", !.handler = NoHandler] ELSE o

\* (faulty variant) stop leaves the observer running
StopTaskSkipped(o) == o

\* SyncTask.stop on a task whose observer thread is idle or absent
StopTask(o) == StopJoined(StopSignal(o))

\* SyncTask.start, lines 162-166: start_monitoring raised (watch-setup failure)
StartFailed(o) == [o EXCEPT !.last_error = TRUE, !.error_count = o.error_count + 1]

\* SyncTask.start, lines 128-132: a required field is not in the entry (of the
\* two required fields the entries of the model hold local_dir)
MissingField(c) == "local_dir" \notin DOMAIN c

\* SyncTask.start, lines 131-132: the missing field is logged and start()
\* returns False from inside the try block; no field of the task is assigned
StartRefused(o) == o

\* SyncTask.start, line 142, into ChangeHandler.__init__: the handler is
\* constructed and its initial sync is in flight
StartInitialSync(o) ==
    [o EXCEPT !.handler = SyncEnter(NewHandler(DirectionOf(o.config), DebounceOf(o.config))).h,
              !.run = "initial"]

\* the initial sync returned: ChangeHandler.__init__ finishes, start_monitoring
\* starts the observer, SyncTask.start (lines 150-160) resets the counters
StartSucceeded(o) ==
    [o EXCEPT !.handler = [SyncExit(o.handler).h EXCEPT !.initial_sync_done = TRUE],
              !.run = "none", !.observer = "alive", !.start_time = TRUE,
              !.last_error = FALSE, !.error_count = 0, !.restart_count = 0]

\* (faulty variant) the executor's exception is not caught: it leaves
\* sync_directory with the flag set and ends the observer thread
AfterExecUncaught(o, outcome) ==
    IF outcome = "fail"
    THEN [o EXCEPT !.run = "none", !.observer = "None", !.failures = @ + 1]
    ELSE [o EXCEPT !.handler = SyncExit(o.handler).h,
                   !.run = IF SyncExit(o.handler).chained THEN "chained" ELSE "none"]

\* sync_directory, monitor.py lines 242-257, in the observer thread of task
\* object o: the executor returned or raised (the exception is caught and
\* logged), the pending check and the finally clause have run
AfterExec(o, outcome) ==
    [o EXCEPT !.handler = SyncExit(o.handler).h,
              !.run = IF SyncExit(o.handler).chained THEN "chained" ELSE "none",
              !.failures = IF outcome = "fail" THEN @ + 1 ELSE @]

\* -------------------------------------------- manager.py: SyncManager

RThreads == {"main", "cfgw"}

\* the places for SyncTask objects: during a pass a name has at most its old
\* object and the one that replaces it
ObjIds == 1..(2 * Cardinality(Names))

\* a place for a new object
NewId(os) == CHOOSE i \in ObjIds : os[i] = NoObj /\ \A j \in ObjIds : os[j] = NoObj => i <= j

\* the objects the registry no longer refers to cease to exist, unless an
\* observer thread of theirs still runs
Collect(reg, os) ==
    [i \in ObjIds |-> IF (\E n \in Names : reg[n] = i) \/ os[i].observer # "None"
                       THEN os[i] ELSE NoObj]

\* (faulty variant) a registered task is restarted whether or not its config changed
UpdateActionAlways(reg, os, n, c) ==
    IF reg[n] # 0
    THEN IF c.status # "paused" THEN "restart" ELSE "pause"
    ELSE IF c.status # "paused" THEN "start" ELSE "ignore"

\* (faulty variant) a name the registry does not hold is never started
UpdateActionNoStart(reg, os, n, c) ==
    IF reg[n] # 0
    THEN IF os[reg[n]].config # c
         THEN IF c.status # "paused" THEN "restart" ELSE "pause"
         ELSE "keep"
    ELSE "ignore"

\* (faulty variant) a changed config is not noticed: the running task is kept
UpdateActionInPlace(reg, os, n, c) ==
    IF reg[n] # 0
    THEN IF os[reg[n]].config # c /\ c.status = "paused" THEN "pause" ELSE "keep"
    ELSE IF c.status # "paused" THEN "start" ELSE "ignore"

\* reload_config, lines 401-419: what the update loop does for a name of the
\* loaded config
UpdateAction(reg, os, n, c) ==
    IF reg[n] # 0
    THEN IF os[reg[n]].config # c
         THEN IF c.status # "paused" THEN "restart" ELSE "pause"
         ELSE "keep"
    ELSE IF c.status # "paused" THEN "start" ELSE "ignore"

IdleRc == [pc |-> "idle", new_config |-> [n \in Names |-> NoConfig], k |-> 0, cur |-> 0, after |-> "none"]
\* what a pass found when it took the lock: the registry, the config each
\* registered task held, the names whose watcher was alive, the names that an
\* earlier pass had paused
NoPre == [tasks |-> [n \in Names |-> 0], cfg |-> [n \in Names |-> NoConfig],
          alive |-> {}, paused |-> {}]
Snapshot(reg, os) ==
    [tasks |-> reg,
     cfg |-> [n \in Names |-> IF reg[n] = 0 THEN NoConfig ELSE os[reg[n]].config],
     alive |-> {n \in Names : reg[n] # 0 /\ os[reg[n]].observer = "alive"},
     paused |-> {n \in Names : reg[n] # 0 /\ os[reg[n]].paused}]

\* no status query made yet
NoStatus == [mid |-> FALSE, conc |-> FALSE, asked |-> FALSE, pend |-> FALSE]

\* SyncManager.__init__ and initialize(): nothing registered, not running, the
\* config observer started
\* no save_config is in progress
NoSave == [busy |-> FALSE, doc |-> [n \in Names |-> NoConfig]]

InitMainVars(names) ==
    /\ config = [n \in names |-> NoConfig]
    /\ cfgEvents = 0
    /\ running = FALSE
    /\ mainpc = "boot"
    /\ lock = "free"
    /\ rc = [t \in RThreads |-> [pc |-> "idle", new_config |-> [n \in names |-> NoConfig],
                                  k |-> 0, cur |-> 0, after |-> "none"]]
    /\ tasks = [n \in names |-> 0]
    /\ objs = [i \in 1..(2 * Cardinality(names)) |-> NoObj]
    /\ orphans = {}
    /\ pre = [tasks |-> [n \in names |-> 0], cfg |-> [n \in names |-> NoConfig],
              alive |-> {}, paused |-> {}]
    /\ health = "started"
    /\ lastStatus = NoStatus
    /\ cfgfile = "whole"
    /\ cliw = NoSave

\* the daemon processes that may be started
Pids == 1..MaxRace

\* no daemon process, no PID file, no stop flag; limit: the processes that may
\* be started
InitProcs(limit) ==
    /\ ppc = [p \in Pids |-> "none"]
    /\ pidfile = 0
    /\ pidtmp = 0
    /\ stopflag = FALSE
    /\ psig = [p \in Pids |-> FALSE]
    /\ preg = [p \in Pids |-> "none"]
    /\ pexit = [p \in Pids |-> "none"]
    /\ pscan = [p \in Pids |-> {}]
    /\ pterm = [p \in Pids |-> 0]
    /\ held = [p \in Pids |-> [pid |-> 0, reg |-> "none", seen |-> {}]]
    /\ clistart = "idle"
    /\ pwd = [p \in Pids |-> "none"]
    /\ phup = [p \in Pids |-> FALSE]
    /\ nsig = 0
    /\ plimit = limit

InitProcVars == InitProcs(MaxProcs)

\* ConfigWatcher.__init__, lines 85-87, and an empty queue; the clock has run
\* for more than the debounce window
InitWatchVars ==
    /\ wnow = CfgStart
    /\ last_modified = 0
    /\ wq = <<>>
    /\ wlog = <<>>

\* the handler variables, unused by Spec
InitHandlerVars ==
    /\ now = StartTime
    /\ handler = NoHandler
    /\ hrun = "none"
    /\ observing = FALSE
    /\ evq = <<>>
    /\ hist = <<>>
    /\ arrived = 0
    /\ hcfg = NoConfig

\* ------------------------------------------------------------- SpecHandler

\* the entries of the history; a run's entry holds the executor call made
\* (sync_directory, lines 189-234)
HistEv(kind) ==
    [type |-> "ev", at |-> now, kind |-> kind, cause |-> "none", prog |-> "none", resync |-> FALSE]
HistRun(cause) ==
    [type |-> "run", at |-> now, kind |-> "none", cause |-> cause,
     prog |-> SyncCmd(handler, cause = "initial").prog,
     resync |-> SyncCmd(handler, cause = "initial").resync]
HistEnd(outcome) ==
    [type |-> "end", at |-> now, kind |-> "none", cause |-> outcome, prog |-> "none", resync |-> FALSE]

\* a task the CLI added in one of the two modes is started (SyncTask.start,
\* manager.py lines 134-148): ChangeHandler(...) in start_monitoring, the
\* constructor is inside its initial sync (line 134), the observer is not
\* yet started
InitHandler ==
    /\ now = StartTime
    /\ \E mode \in Modes : hcfg = AddSyncEntry("d1", mode)
    /\ handler = SyncEnter(NewHandler(DirectionOf(hcfg), DebounceOf(hcfg))).h
    /\ hrun = "initial"
    /\ observing = FALSE
    /\ evq = <<>>
    /\ hist = <<HistRun("initial")>>
    /\ arrived = 0
    /\ InitMainVars({"a"})
    /\ InitProcVars
    /\ InitWatchVars

\* the clock advances
HTick ==
    /\ now < MaxTime
    /\ now' = now + 1
    /\ UNCHANGED <<handler, hrun, observing, evq, hist, arrived, hcfg, vars_m, vars_p, vars_w>>

\* the initial sync returns (success or failure, lines 239-247); __init__
\* finishes and start_monitoring starts the observer (lines 135, 315-317)
HInitialDone(outcome) ==
    /\ hrun = "initial"
    /\ LET x == SyncExit(handler)
       IN  /\ handler' = [x.h EXCEPT !.initial_sync_done = TRUE]
           /\ hrun' = "none"
    /\ observing' = TRUE
    /\ hist' = Append(hist, HistEnd(outcome))
    /\ UNCHANGED <<now, evq, arrived, hcfg, vars_m, vars_p, vars_w>>

\* the file system reports an event: the emitter thread queues it
HArrive(kind) ==
    /\ observing
    /\ Len(evq) < MaxQueue
    /\ arrived < MaxEvents
    /\ arrived' = arrived + 1
    /\ evq' = Append(evq, kind)
    /\ hist' = IF Relevant(kind) THEN Append(hist, HistEv(kind)) ELSE hist
    /\ UNCHANGED <<now, handler, hrun, observing, hcfg, vars_m, vars_p, vars_w>>

\* the observer thread, idle, takes the next event and calls on_any_event
HDispatch ==
    /\ observing
    /\ hrun = "none"
    /\ evq # <<>>
    /\ LET x == OnAnyEvent(handler, Head(evq), now)
       IN  /\ handler' = x.h
           /\ hrun' = IF x.started THEN "event" ELSE "none"
           /\ hist' = IF x.started THEN Append(hist, HistRun("event")) ELSE hist
    /\ evq' = Tail(evq)
    /\ UNCHANGED <<now, observing, arrived, hcfg, vars_m, vars_p, vars_w>>

\* the executor of a change-triggered run returns; sync_directory either
\* chains another run or leaves
HExecDone(outcome) ==
    /\ hrun \in {"event", "chained"}
    /\ LET x == SyncExit(handler)
       IN  /\ handler' = x.h
           /\ hrun' = IF x.chained THEN "chained" ELSE "none"
           /\ hist' = IF x.chained
                      THEN hist \o <<HistEnd(outcome), HistRun("chained")>>
                      ELSE Append(hist, HistEnd(outcome))
    /\ UNCHANGED <<now, observing, evq, arrived, hcfg, vars_m, vars_p, vars_w>>

NextHandler ==
    \/ HTick
    \/ \E outcome \in {"ok", "fail"} : HInitialDone(outcome)
    \/ \E kind \in EventKinds : HArrive(kind)
    \/ HDispatch
    \/ \E outcome \in {"ok", "fail"} : HExecDone(outcome)

SpecHandler == InitHandler /\ [][NextHandler]_vars

\* -------------------------------------------------------------- SpecFilter
\* The handler of SpecHandler under events of every kind the tests of
\* on_any_event tell apart: "dir" (event.is_directory), "backup" (the path
\* ends in '~'), "hidden" (the basename starts with '.'), "outside" (the path
\* relative to local_dir starts with '..', or relpath raises ValueError),
\* "tmp" (a file with a temporary-file suffix such as .tmp, which no test of
\* lines 145-158 looks at) and "file" (any other file).
AllKinds == {"file", "dir", "backup", "hidden", "outside", "tmp"}

NextFilter ==
    \/ HTick
    \/ \E outcome \in {"ok", "fail"} : HInitialDone(outcome)
    \/ \E kind \in AllKinds : HArrive(kind)
    \/ HDispatch
    \/ \E outcome \in {"ok", "fail"} : HExecDone(outcome)

SpecFilter == InitHandler /\ [][NextFilter]_vars

\* -------------------------------------------------------------------- Spec

\* the clock readings of Spec, which has no clock of its own: a first reading,
\* one a debounce interval later and one more than a debounce interval after that
ClockReadings == {StartTime, StartTime + Debounce, StartTime + 2 * Debounce + 1}

InitMain == InitMainVars({"a"}) /\ InitHandlerVars /\ InitProcVars /\ InitWatchVars

Busy(o) == o.observer = "alive" /\ o.run # "none"

\* ---- the environment: the CLI edits the config file (cli.py), which the
\* ConfigWatcher's observer reports as modification events

WriteConfig(new) ==
    /\ cfgEvents < MaxCfgEvents
    /\ config' = new
    /\ cfgEvents' = cfgEvents + 1
    /\ UNCHANGED <<running, mainpc, lock, rc, tasks, objs, orphans, pre, health, lastStatus, cfgfile, cliw, vars_h, vars_p, vars_w>>

\* cli.add_sync, lines 220-237
CliAdd(n, d) ==
    /\ config[n] = NoConfig
    /\ WriteConfig([config EXCEPT ![n] = [local_dir |-> d, status |-> "active"]])

\* cli.remove_sync
CliRemove(n) ==
    /\ config[n] # NoConfig
    /\ WriteConfig([config EXCEPT ![n] = NoConfig])

\* cli.pause_sync
CliPause(n) ==
    /\ config[n] # NoConfig
    /\ config[n].status # "paused"
    /\ WriteConfig([config EXCEPT ![n].status = "paused"])

\* cli.resume_sync, lines 935-947
CliResume(n) ==
    /\ config[n] # NoConfig
    /\ config[n].status # "active"
    /\ WriteConfig([config EXCEPT ![n].status = "active"])

\* ---- the triggers of reload_config

\* reload_config, lines 378-390, in thread t: the running check (is_running:
\* the value of SyncManager.running at the call) and the load of the config file.
\* json.load of line 389 raises on a file that holds no JSON document. The
\* except clause of lines 422-423 logs it and reload_config returns.
Loadable == cfgfile \in {"whole", "missing"}

\* lines 384-389: a missing file is read as no syncs
LoadConfig == IF cfgfile = "missing" THEN [n \in Names |-> NoConfig] ELSE config

ReloadEnter(t, is_running) ==
    rc' = IF is_running /\ Loadable
          THEN [rc EXCEPT ![t].pc = "lock", ![t].new_config = LoadConfig]
          ELSE rc

\* SyncManager.start, lines 245-256, in the main thread
ManagerStart ==
    /\ mainpc = "boot"
    /\ mainpc' = "run"
    /\ running' = TRUE
    /\ ReloadEnter("main", TRUE)
    /\ UNCHANGED <<config, cfgEvents, lock, tasks, objs, orphans, pre, health, lastStatus, cfgfile, cliw, vars_h, vars_p, vars_w>>

\* main.signal_handler, lines 531-533: SIGHUP, handled in the main thread
\* while it sleeps in the loop of lines 575-576
Sighup ==
    /\ mainpc = "run"
    /\ rc["main"].pc = "idle"
    /\ ReloadEnter("main", running)
    /\ UNCHANGED <<config, cfgEvents, running, mainpc, lock, tasks, objs, orphans, pre, health, lastStatus, cfgfile, cliw, vars_h, vars_p, vars_w>>

\* ConfigWatcher.on_modified, lines 89-96, in the config observer's thread;
\* this specification has no clock: both results of the comparison of line 93
\* are possible
ConfigModified(elapsed) ==
    /\ cfgEvents > 0
    /\ rc["cfgw"].pc = "idle"
    /\ cfgEvents' = cfgEvents - 1
    /\ IF elapsed THEN ReloadEnter("cfgw", running) ELSE UNCHANGED rc
    /\ UNCHANGED <<config, running, mainpc, lock, tasks, objs, orphans, pre, health, lastStatus, cfgfile, cliw, vars_h, vars_p, vars_w>>

\* ---- reload_config, step by step, in thread t

\* line 392: with self.lock
ReloadLock(t) ==
    /\ rc[t].pc = "lock"
    /\ lock = "free"
    /\ lock' = t
    /\ rc' = [rc EXCEPT ![t].pc = "remove", ![t].k = 1]
    /\ pre' = Snapshot(tasks, objs)
    /\ UNCHANGED <<config, cfgEvents, running, mainpc, tasks, objs, orphans, health, lastStatus, cfgfile, cliw, vars_h, vars_p, vars_w>>

\* lines 394-398: one name of the removal loop
RemoveStep(t) ==
    /\ rc[t].pc = "remove"
    /\ LET k == rc[t].k
       IN  IF k > Len(NameSeq)
           THEN /\ rc' = [rc EXCEPT ![t].pc = "update", ![t].k = 1]
                /\ UNCHANGED <<tasks, objs>>
           ELSE LET n == NameSeq[k]
                    i == tasks[n]
                IN  IF i # 0 /\ rc[t].new_config[n] = NoConfig
                    THEN IF Busy(objs[i])
                         THEN /\ objs' = [objs EXCEPT ![i] = StopSignal(objs[i])]
                              /\ rc' = [rc EXCEPT ![t].pc = "join", ![t].cur = i, ![t].after = "del"]
                              /\ UNCHANGED tasks
                         ELSE /\ objs' = [objs EXCEPT ![i] = StopTask(objs[i])]
                              /\ tasks' = [tasks EXCEPT ![n] = 0]
                              /\ rc' = [rc EXCEPT ![t].k = k + 1]
                    ELSE /\ rc' = [rc EXCEPT ![t].k = k + 1]
                         /\ UNCHANGED <<tasks, objs>>
    /\ UNCHANGED <<config, cfgEvents, running, mainpc, lock, orphans, pre, health, lastStatus, cfgfile, cliw, vars_h, vars_p, vars_w>>

\* lines 401-419: one name of the update loop, up to the start of a task
UpdateStep(t) ==
    /\ rc[t].pc = "update"
    /\ rc[t].k <= Len(NameSeq)
    /\ LET k == rc[t].k
           n == NameSeq[k]
           c == rc[t].new_config[n]
           i == tasks[n]
           what == IF c = NoConfig THEN "absent" ELSE UpdateAction(tasks, objs, n, c)
       IN  CASE what \in {"absent", "keep", "ignore"} ->
                  /\ rc' = [rc EXCEPT ![t].k = k + 1]
                  /\ UNCHANGED objs
             [] what = "start" ->
                  /\ rc' = [rc EXCEPT ![t].pc = "start"]
                  /\ UNCHANGED objs
             [] what \in {"restart", "pause"} /\ Busy(objs[i]) ->
                  /\ objs' = [objs EXCEPT ![i] = StopSignal(objs[i])]
                  /\ rc' = [rc EXCEPT ![t].pc = "join", ![t].cur = i, ![t].after = what]
             [] what = "restart" /\ ~Busy(objs[i]) ->
                  /\ objs' = [objs EXCEPT ![i] = StopTask(objs[i])]
                  /\ rc' = [rc EXCEPT ![t].pc = "start"]
             [] what = "pause" /\ ~Busy(objs[i]) ->
                  /\ objs' = [objs EXCEPT ![i] = [StopTask(objs[i]) EXCEPT
                                                     !.paused = (objs[i].observer = "alive")]]
                  /\ rc' = [rc EXCEPT ![t].k = k + 1]
    /\ UNCHANGED <<config, cfgEvents, running, mainpc, lock, tasks, orphans, pre, health, lastStatus, cfgfile, cliw, vars_h, vars_p, vars_w>>

\* SyncTask.stop, line 179: the join of a stopped task's observer returns
\* when the handler call it was in (the executor run) has returned
JoinDone(t) ==
    /\ rc[t].pc = "join"
    /\ LET i == rc[t].cur
           n == NameSeq[rc[t].k]
       IN  /\ objs[i].run = "none"
           /\ CASE rc[t].after = "del" ->
                     /\ objs' = [objs EXCEPT ![i] = StopJoined(objs[i])]
                     /\ tasks' = [tasks EXCEPT ![n] = 0]
                     /\ rc' = [rc EXCEPT ![t].pc = "remove", ![t].k = rc[t].k + 1,
                                         ![t].cur = 0, ![t].after = "none"]
                [] rc[t].after = "restart" ->
                     /\ objs' = [objs EXCEPT ![i] = StopJoined(objs[i])]
                     /\ rc' = [rc EXCEPT ![t].pc = "start", ![t].cur = 0, ![t].after = "none"]
                     /\ UNCHANGED tasks
                [] rc[t].after = "pause" ->
                     /\ objs' = [objs EXCEPT ![i] = [StopJoined(objs[i]) EXCEPT !.paused = TRUE]]
                     /\ rc' = [rc EXCEPT ![t].pc = "update", ![t].k = rc[t].k + 1,
                                         ![t].cur = 0, ![t].after = "none"]
                     /\ UNCHANGED tasks
    /\ UNCHANGED <<config, cfgEvents, running, mainpc, lock, orphans, pre, health, lastStatus, cfgfile, cliw, vars_h, vars_p, vars_w>>

\* lines 408-409 and 416-417: self.tasks[name] = SyncTask(config), then
\* start(): either start_monitoring raises before it constructs the handler
\* (lines 284-300: the directory is missing or unreadable, the rclone version
\* check fails), or the handler is constructed and runs its initial sync
\* (faulty variant) the failure of start() leaves the loop: the pass is over
StartRaised(r) == [r EXCEPT !.pc = "update", !.k = Len(NameSeq) + 1]

\* lines 409 and 417: start() has caught the failure and returned False, the
\* return value is not looked at and the loop goes on to the next name
StartReturnedFalse(r) == [r EXCEPT !.pc = "update", !.k = r.k + 1]

StartStep(t, outcome) ==
    /\ rc[t].pc = "start"
    /\ LET n == NameSeq[rc[t].k]
           o == SyncTask(n, rc[t].new_config[n])
           id == NewId(objs)
       IN  /\ tasks' = [tasks EXCEPT ![n] = id]
           /\ IF MissingField(o.config)
              THEN /\ objs' = [objs EXCEPT ![id] = StartRefused(o)]
                   /\ rc' = [rc EXCEPT ![t] = StartReturnedFalse(rc[t])]
              ELSE IF outcome = "raise"
              THEN /\ objs' = [objs EXCEPT ![id] = StartFailed(o)]
                   /\ rc' = [rc EXCEPT ![t] = StartReturnedFalse(rc[t])]
              ELSE /\ objs' = [objs EXCEPT ![id] = StartInitialSync(o)]
                   /\ rc' = [rc EXCEPT ![t].pc = "initsync", ![t].cur = id]
    /\ UNCHANGED <<config, cfgEvents, running, mainpc, lock, orphans, pre, health, lastStatus, cfgfile, cliw, vars_h, vars_p, vars_w>>

\* the initial sync of the task being started returns (its outcome is only
\* logged, monitor.py lines 239-247); start() completes
InitSyncDone(t, outcome) ==
    /\ rc[t].pc = "initsync"
    /\ outcome \in {"ok", "fail"}
    /\ objs' = [objs EXCEPT ![rc[t].cur] = StartSucceeded(objs[rc[t].cur])]
    /\ rc' = [rc EXCEPT ![t].pc = "update", ![t].k = rc[t].k + 1, ![t].cur = 0]
    /\ UNCHANGED <<config, cfgEvents, running, mainpc, lock, tasks, orphans, pre, health, lastStatus, cfgfile, cliw, vars_h, vars_p, vars_w>>

\* lines 419-421: the update loop is over, the lock is released, the pass returns
ReloadReturn(t) ==
    /\ rc[t].pc = "update"
    /\ rc[t].k > Len(NameSeq)
    /\ lock' = "free"
    /\ rc' = [rc EXCEPT ![t] = IdleRc]
    /\ pre' = NoPre
    /\ objs' = Collect(tasks, objs)
    /\ UNCHANGED <<config, cfgEvents, running, mainpc, tasks, orphans, health, lastStatus, cfgfile, cliw, vars_h, vars_p, vars_w>>

\* ---- the observer thread of task object i and its handler

\* a file of the task's directory changes: the event is queued
ObsArrive(i) ==
    /\ objs[i].observer = "alive"
    /\ objs[i].evq < MaxWaiting
    /\ objs' = [objs EXCEPT ![i].evq = objs[i].evq + 1]
    /\ UNCHANGED <<config, cfgEvents, running, mainpc, lock, rc, tasks, orphans, pre, health, lastStatus, cfgfile, cliw, vars_h, vars_p, vars_w>>

\* the observer thread, idle, calls on_any_event; current_time is a reading
\* of the clock not before the handler's last one
ObsDispatch(i, current_time) ==
    /\ objs[i].observer = "alive"
    /\ objs[i].run = "none"
    /\ objs[i].evq > 0
    /\ current_time >= objs[i].handler.last_sync
    /\ LET x == OnAnyEvent(objs[i].handler, "file", current_time)
       IN  objs' = [objs EXCEPT ![i].handler = x.h,
                                ![i].run = IF x.started THEN "event" ELSE "none",
                                ![i].evq = objs[i].evq - 1]
    /\ UNCHANGED <<config, cfgEvents, running, mainpc, lock, rc, tasks, orphans, pre, health, lastStatus, cfgfile, cliw, vars_h, vars_p, vars_w>>

\* sync_directory, lines 239-257: the executor of a change-triggered run
\* returns or fails; the failure is logged
ObsExecDone(i, outcome) ==
    /\ objs[i].run \in {"event", "chained"}
    /\ outcome = "fail" => objs[i].failures < MaxFailures
    /\ objs' = [objs EXCEPT ![i] = AfterExec(objs[i], outcome)]
    /\ UNCHANGED <<config, cfgEvents, running, mainpc, lock, rc, tasks, orphans, pre, health, lastStatus, cfgfile, cliw, vars_h, vars_p, vars_w>>

\* ---- the daemon is replaced

\* check_and_cleanup_duplicate_managers, lines 506-511 (run by a replacement
\* daemon, which the watchdog's _restart_service or the CLI spawns): the
\* daemon does not exit within the timeout and is killed. Its threads and its
\* registry are gone; an executor it had started is a process of its own and
\* runs on. The replacement is at the start of manager.start().
DaemonKilled ==
    /\ orphans' = orphans \cup {objs[i].name : i \in {j \in ObjIds : objs[j].run # "none"}}
    /\ objs' = [i \in ObjIds |-> NoObj]
    /\ tasks' = [n \in Names |-> 0]
    /\ rc' = [t \in RThreads |-> IdleRc]
    /\ lock' = "free"
    /\ running' = FALSE
    /\ mainpc' = "boot"
    /\ cfgEvents' = 0
    /\ pre' = NoPre
    /\ UNCHANGED <<config, health, lastStatus, cfgfile, cliw, vars_h, vars_p, vars_w>>

\* an executor left behind by a killed daemon ends
OrphanDone(n) ==
    /\ n \in orphans
    /\ orphans' = orphans \ {n}
    /\ UNCHANGED <<config, cfgEvents, running, mainpc, lock, rc, tasks, objs, pre, health, lastStatus, cfgfile, cliw, vars_h, vars_p, vars_w>>

Next ==
    \/ \E n \in Names, d \in Dirs : CliAdd(n, d)
    \/ \E n \in Names : CliRemove(n)
    \/ \E n \in Names : CliPause(n)
    \/ \E n \in Names : CliResume(n)
    \/ ManagerStart
    \/ Sighup
    \/ \E elapsed \in BOOLEAN : ConfigModified(elapsed)
    \/ \E t \in RThreads : ReloadLock(t)
    \/ \E t \in RThreads : RemoveStep(t)
    \/ \E t \in RThreads : UpdateStep(t)
    \/ \E t \in RThreads : JoinDone(t)
    \/ \E t \in RThreads, outcome \in {"raise", "run"} : StartStep(t, outcome)
    \/ \E t \in RThreads, outcome \in {"ok", "fail"} : InitSyncDone(t, outcome)
    \/ \E t \in RThreads : ReloadReturn(t)
    \/ \E i \in ObjIds : ObsArrive(i)
    \/ \E i \in ObjIds, tm \in ClockReadings : ObsDispatch(i, tm)
    \/ \E i \in ObjIds, outcome \in {"ok", "fail"} : ObsExecDone(i, outcome)
    \/ DaemonKilled
    \/ \E n \in Names : OrphanDone(n)

Spec == InitMain /\ [][Next]_vars

\* ---------------------------------------------------------------- SpecStop
\* The daemon of Spec with its graceful shutdown: SIGTERM or SIGINT takes the
\* main thread, asleep in the loop of main() (lines 575-576), into
\* signal_handler and SyncManager.stop (lines 258-290). mainpc goes on from
\* "run" to "stop_cfgw" (stop flag written, the config observer asked to
\* stop, line 272; its join, line 273, is pending), "stop_tasks" (inside the
\* with-block of lines 276-279) and "down" (the process has exited, line 538).
\* A handler that interrupts the main thread inside a pass of reload_config
\* blocks at line 276 and stops no task: that case is in SpecProc ("stuck").

\* the CLI and the config observer, while the daemon has not been told to stop
StopEnv ==
    /\ mainpc \in {"boot", "run"}
    /\ \/ \E n \in Names, d \in Dirs : CliAdd(n, d)
       \/ \E n \in Names : CliRemove(n)
       \/ \E n \in Names : CliPause(n)
       \/ \E n \in Names : CliResume(n)
       \/ ManagerStart
       \/ \E elapsed \in BOOLEAN : ConfigModified(elapsed)

\* signal_handler, lines 534-536, into SyncManager.stop, lines 260-272: running
\* is True; the config observer is asked to stop and its queue is dropped
Sigterm ==
    /\ mainpc = "run"
    /\ rc["main"].pc = "idle"
    /\ running
    /\ mainpc' = "stop_cfgw"
    /\ cfgEvents' = 0
    /\ UNCHANGED <<config, running, lock, rc, tasks, objs, orphans, pre, health, lastStatus, cfgfile, cliw, vars_h, vars_p, vars_w>>

\* SyncManager.stop, lines 273-276: the join of the config observer returns
\* when the pass its thread is in has returned; the lock is taken
StopLock ==
    /\ mainpc = "stop_cfgw"
    /\ rc["cfgw"].pc = "idle"
    /\ lock = "free"
    /\ lock' = "main"
    /\ mainpc' = "stop_tasks"
    /\ UNCHANGED <<config, cfgEvents, running, rc, tasks, objs, orphans, pre, health, lastStatus, cfgfile, cliw, vars_h, vars_p, vars_w>>

\* the registered tasks whose observer is alive
AliveTasks == {n \in Names : tasks[n] # 0 /\ objs[tasks[n]].observer = "alive"}

\* SyncManager.stop, lines 277-278, one task.stop() of the loop: the observer
\* is asked to stop (SyncTask.stop, line 178) and the join (line 179) returns
\* when the handler call the observer thread is in has returned
StopOneTask ==
    /\ mainpc = "stop_tasks"
    /\ LET stopping == {i \in ObjIds : objs[i].observer = "stopping"}
       IN  IF stopping # {}
           THEN \E i \in stopping :
                   /\ objs[i].run = "none"
                   /\ objs' = [objs EXCEPT ![i] = StopJoined(objs[i])]
           ELSE /\ AliveTasks # {}
                /\ LET k == CHOOSE j \in 1..Len(NameSeq) :
                                  /\ NameSeq[j] \in AliveTasks
                                  /\ \A x \in 1..(j - 1) : NameSeq[x] \notin AliveTasks
                       i == tasks[NameSeq[k]]
                   IN  objs' = [objs EXCEPT ![i] = IF Busy(objs[i]) THEN StopSignal(objs[i])
                                                                    ELSE StopTask(objs[i])]
    /\ UNCHANGED <<config, cfgEvents, running, mainpc, lock, rc, tasks, orphans, pre, health, lastStatus, cfgfile, cliw, vars_h, vars_p, vars_w>>

\* SyncManager.stop, lines 279-290, remove_pid and sys.exit(0) (lines 537-538):
\* the registry is cleared, the lock released, running is False, the process
\* exits (the stopped task objects are kept here for what became of them)
StopExit ==
    /\ mainpc = "stop_tasks"
    /\ AliveTasks = {}
    /\ \A i \in ObjIds : objs[i].observer # "stopping"
    /\ tasks' = [n \in Names |-> 0]
    /\ lock' = "free"
    /\ running' = FALSE
    /\ mainpc' = "down"
    /\ UNCHANGED <<config, cfgEvents, rc, objs, orphans, pre, health, lastStatus, cfgfile, cliw, vars_h, vars_p, vars_w>>

NextStop ==
    \/ StopEnv
    \/ \E t \in RThreads : ReloadLock(t)
    \/ \E t \in RThreads : RemoveStep(t)
    \/ \E t \in RThreads : UpdateStep(t)
    \/ \E t \in RThreads : JoinDone(t)
    \/ \E t \in RThreads, outcome \in {"raise", "run"} : StartStep(t, outcome)
    \/ \E t \in RThreads, outcome \in {"ok", "fail"} : InitSyncDone(t, outcome)
    \/ \E t \in RThreads : ReloadReturn(t)
    \/ \E i \in ObjIds : ObsArrive(i)
    \/ \E i \in ObjIds, tm \in ClockReadings : ObsDispatch(i, tm)
    \/ \E i \in ObjIds, outcome \in {"ok", "fail"} : ObsExecDone(i, outcome)
    \/ Sigterm
    \/ StopLock
    \/ StopOneTask
    \/ StopExit

SpecStop == InitMain /\ [][NextStop]_vars

\* --------------------------------------------------------------- SpecFinal
\* The shutdown of SpecStop with the end of SyncManager.stop in its steps and
\* a SIGHUP that arrives while the main thread is inside stop(): the handler
\* of the new signal runs at once, nested in the one that is running, and
\* stop() goes on when it has returned. mainpc goes on from "stop_tasks" to
\* "stop_cleared" (the with-block of lines 276-279 is left, running is still
\* True), "stopped" (stop() has returned) and "down".

\* the steps of stop() up to the end of the loop of line 277, taken while no
\* nested handler runs
FinalLock == rc["main"].pc = "idle" /\ StopLock
FinalStopTask == rc["main"].pc = "idle" /\ StopOneTask

\* lines 279: self.tasks.clear() and the end of the with-block
StopClear ==
    /\ mainpc = "stop_tasks"
    /\ rc["main"].pc = "idle"
    /\ AliveTasks = {}
    /\ \A i \in ObjIds : objs[i].observer # "stopping"
    /\ tasks' = [n \in Names |-> 0]
    /\ lock' = "free"
    /\ mainpc' = "stop_cleared"
    /\ UNCHANGED <<config, cfgEvents, running, rc, objs, orphans, pre, health, lastStatus, cfgfile, cliw, vars_h, vars_p, vars_w>>

\* lines 282-290: running = False, the joins of the watchdog threads, return
StopReturn ==
    /\ mainpc = "stop_cleared"
    /\ rc["main"].pc = "idle"
    /\ running' = FALSE
    /\ mainpc' = "stopped"
    /\ UNCHANGED <<config, cfgEvents, lock, rc, tasks, objs, orphans, pre, health, lastStatus, cfgfile, cliw, vars_h, vars_p, vars_w>>

\* signal_handler, lines 537-538: remove_pid and sys.exit(0)
StopDown ==
    /\ mainpc = "stopped"
    /\ rc["main"].pc = "idle"
    /\ mainpc' = "down"
    /\ UNCHANGED <<config, cfgEvents, running, lock, rc, tasks, objs, orphans, pre, health, lastStatus, cfgfile, cliw, vars_h, vars_p, vars_w>>

\* signal_handler, lines 531-533, for a SIGHUP delivered while the main
\* thread is in stop(): manager.reload_config() is called in the main thread
SighupInStop ==
    /\ mainpc \in {"stop_cfgw", "stop_tasks", "stop_cleared", "stopped"}
    /\ rc["main"].pc = "idle"
    /\ running /\ Loadable
    /\ ReloadEnter("main", running)
    /\ UNCHANGED <<config, cfgEvents, running, mainpc, lock, tasks, objs, orphans, pre, health, lastStatus, cfgfile, cliw, vars_h, vars_p, vars_w>>

NextFinal ==
    \/ StopEnv
    \/ \E t \in RThreads : ReloadLock(t)
    \/ \E t \in RThreads : RemoveStep(t)
    \/ \E t \in RThreads : UpdateStep(t)
    \/ \E t \in RThreads : JoinDone(t)
    \/ \E t \in RThreads, outcome \in {"raise", "run"} : StartStep(t, outcome)
    \/ \E t \in RThreads, outcome \in {"ok", "fail"} : InitSyncDone(t, outcome)
    \/ \E t \in RThreads : ReloadReturn(t)
    \/ \E i \in ObjIds : ObsArrive(i)
    \/ \E i \in ObjIds, tm \in ClockReadings : ObsDispatch(i, tm)
    \/ \E i \in ObjIds, outcome \in {"ok", "fail"} : ObsExecDone(i, outcome)
    \/ Sigterm
    \/ FinalLock
    \/ FinalStopTask
    \/ StopClear
    \/ StopReturn
    \/ StopDown
    \/ SighupInStop

SpecFinal == InitMain /\ [][NextFinal]_vars

\* stop() has cleared the registry
Cleared == mainpc \in {"stop_cleared", "stopped", "down"}

\* C38 (shutdown is final for tasks): once stop() has cleared the registry no
\* pass starts a task, and when stop() has returned the registry is empty and
\* no task watcher is alive.
C38_ShutdownFinal ==
    /\ Cleared => \A t \in RThreads : rc[t].pc \notin {"start", "initsync"}
    /\ mainpc \in {"stopped", "down"} =>
          /\ \A n \in Names : tasks[n] = 0
          /\ \A i \in ObjIds : objs[i].observer # "alive"

\* ---------------------------------------------------------------- SpecProc
\* Daemon processes running manager.py main() side by side, with the files
\* they share: PID_FILE, PID_FILE.tmp and STOP_FLAG_FILE. A process is a pid
\* of Pids; pids are not reused.

InitProc == InitProcVars /\ InitMainVars({"a"}) /\ InitHandlerVars /\ InitWatchVars

\* the process exists (os.kill(pid, 0) succeeds, process_iter lists it)
Alive(p) == ppc[p] \notin {"none", "exited", "dead"}

\* main() of p has passed signal.signal (lines 541-544)
HandlersSet(p) == ppc[p] \notin {"none", "import", "cleanup", "handlers", "exited", "dead"}

\* cli.py is_service_running, lines 386-402
IsServiceRunning == pidfile # 0 /\ Alive(pidfile)

\* check_and_cleanup_duplicate_managers, lines 494-502: the processes whose
\* command line names the manager module, but for the caller itself
Duplicates(p) == {q \in Pids \ {p} : Alive(q)}

\* a process can still be started
Free == \E p \in 1..plimit : ppc[p] = "none"

\* the pid the next process gets
NextPid == CHOOSE p \in Pids : ppc[p] = "none" /\ \A q \in Pids : ppc[q] = "none" => p <= q

\* a process begins main(): line 526 calls check_and_cleanup_duplicate_managers,
\* whose process_iter (line 494) lists the daemons alive now
SpawnProc(p) ==
    /\ ppc' = [ppc EXCEPT ![p] = "cleanup"]
    /\ pscan' = [pscan EXCEPT ![p] = Duplicates(p)]
    /\ held' = [held EXCEPT ![p] = IF IsServiceRunning
                                   THEN [pid |-> pidfile, reg |-> preg[pidfile], seen |-> Duplicates(p)]
                                   ELSE [pid |-> 0, reg |-> "none", seen |-> Duplicates(p)]]

\* python -m secure_cloud_syncer.manager, run directly or by a service unit
\* or by _restart_service (lines 343-366): nothing is checked before main()
DirectStart ==
    /\ Free
    /\ SpawnProc(NextPid)
    /\ UNCHANGED <<pidfile, pidtmp, stopflag, psig, preg, pexit, pterm, clistart, pwd, phup, nsig, plimit, vars_h, vars_m, vars_w>>

\* cli.py start_service, lines 406-408: the check. When the service is
\* running the CLI exits 1 and nothing changes.
CliStartCheck ==
    /\ clistart = "idle"
    /\ ~IsServiceRunning
    /\ Free
    /\ clistart' = "checked"
    /\ UNCHANGED <<ppc, pidfile, pidtmp, stopflag, psig, preg, pexit, pscan, pterm, held, pwd, phup, nsig, plimit, vars_h, vars_m, vars_w>>

\* cli.py start_service, lines 410-415: the Popen
CliStartSpawn ==
    /\ clistart = "checked"
    /\ Free
    /\ SpawnProc(NextPid)
    /\ clistart' = "idle"
    /\ UNCHANGED <<pidfile, pidtmp, stopflag, psig, preg, pexit, pterm, pwd, phup, nsig, plimit, vars_h, vars_m, vars_w>>

\* lines 494-519, a listed process that is gone: NoSuchProcess, continue
ScanGone(p, q) ==
    /\ ppc[p] = "cleanup" /\ pterm[p] = 0
    /\ q \in pscan[p] /\ ~Alive(q)
    /\ pscan' = [pscan EXCEPT ![p] = @ \ {q}]
    /\ UNCHANGED <<ppc, pidfile, pidtmp, stopflag, psig, preg, pexit, pterm, held, clistart, pwd, phup, nsig, plimit, vars_h, vars_m, vars_w>>

\* line 506, proc.terminate(): SIGTERM to q. Before q has registered its
\* handler the signal's default action ends q at once; after, it is pending
\* until q's main thread runs the handler.
Terminate(p, q) ==
    /\ ppc[p] = "cleanup" /\ pterm[p] = 0
    /\ q \in pscan[p] /\ Alive(q)
    /\ pscan' = [pscan EXCEPT ![p] = @ \ {q}]
    /\ pterm' = [pterm EXCEPT ![p] = q]
    /\ IF HandlersSet(q)
       THEN /\ psig' = [psig EXCEPT ![q] = TRUE]
            /\ UNCHANGED <<ppc, pexit>>
       ELSE /\ ppc' = [ppc EXCEPT ![q] = "dead"]
            /\ pexit' = [pexit EXCEPT ![q] = "killed"]
            /\ UNCHANGED psig
    /\ UNCHANGED <<pidfile, pidtmp, stopflag, preg, held, clistart, pwd, phup, nsig, plimit, vars_h, vars_m, vars_w>>

\* lines 507-511: the wait times out and q is killed
Kill(p) ==
    /\ ppc[p] = "cleanup" /\ pterm[p] # 0
    /\ Alive(pterm[p])
    /\ ppc' = [ppc EXCEPT ![pterm[p]] = "dead"]
    /\ pexit' = [pexit EXCEPT ![pterm[p]] = "killed"]
    /\ psig' = [psig EXCEPT ![pterm[p]] = FALSE]
    /\ UNCHANGED <<pidfile, pidtmp, stopflag, preg, pscan, pterm, held, clistart, pwd, phup, nsig, plimit, vars_h, vars_m, vars_w>>

\* lines 508 and 513-517: q is gone; PID file and stop flag are removed
WaitDone(p) ==
    /\ ppc[p] = "cleanup" /\ pterm[p] # 0
    /\ ~Alive(pterm[p])
    /\ pterm' = [pterm EXCEPT ![p] = 0]
    /\ pidfile' = 0
    /\ stopflag' = FALSE
    /\ UNCHANGED <<ppc, pidtmp, psig, preg, pexit, pscan, held, clistart, pwd, phup, nsig, plimit, vars_h, vars_m, vars_w>>

\* check_and_cleanup_duplicate_managers returns
CleanupDone(p) ==
    /\ ppc[p] = "cleanup" /\ pterm[p] = 0 /\ pscan[p] = {}
    /\ ppc' = [ppc EXCEPT ![p] = "handlers"]
    /\ UNCHANGED <<pidfile, pidtmp, stopflag, psig, preg, pexit, pscan, pterm, held, clistart, pwd, phup, nsig, plimit, vars_h, vars_m, vars_w>>

\* lines 541-544
RegisterHandlers(p) ==
    /\ ppc[p] = "handlers"
    /\ ppc' = [ppc EXCEPT ![p] = "savepid"]
    /\ UNCHANGED <<pidfile, pidtmp, stopflag, psig, preg, pexit, pscan, pterm, held, clistart, pwd, phup, nsig, plimit, vars_h, vars_m, vars_w>>

\* save_pid, lines 440-442: the temporary file is written
SavePidWrite(p) ==
    /\ ppc[p] = "savepid" /\ ~psig[p] /\ ~phup[p]
    /\ pidtmp' = p
    /\ ppc' = [ppc EXCEPT ![p] = "rename"]
    /\ UNCHANGED <<pidfile, stopflag, psig, preg, pexit, pscan, pterm, held, clistart, pwd, phup, nsig, plimit, vars_h, vars_m, vars_w>>

\* save_pid, line 445: the rename; lines 449-451 when the temporary file is
\* gone (another process's save_pid or remove_pid took it)
SavePidRename(p) ==
    /\ ppc[p] = "rename" /\ ~psig[p] /\ ~phup[p]
    /\ IF pidtmp # 0
       THEN /\ pidfile' = pidtmp
            /\ pidtmp' = 0
            /\ ppc' = [ppc EXCEPT ![p] = "construct"]
            /\ UNCHANGED pexit
       ELSE /\ ppc' = [ppc EXCEPT ![p] = "exited"]
            /\ pexit' = [pexit EXCEPT ![p] = "1"]
            /\ UNCHANGED <<pidfile, pidtmp>>
    /\ UNCHANGED <<stopflag, psig, preg, pscan, pterm, held, clistart, pwd, phup, nsig, plimit, vars_h, vars_m, vars_w>>

\* lines 569-570: manager = SyncManager(); manager.initialize(), which starts
\* the watchdog thread (lines 240-241)
Construct(p) ==
    /\ ppc[p] = "construct" /\ ~psig[p] /\ ~phup[p]
    /\ preg' = [preg EXCEPT ![p] = "empty"]
    /\ ppc' = [ppc EXCEPT ![p] = "init"]
    /\ pwd' = [pwd EXCEPT ![p] = "started"]
    /\ UNCHANGED <<pidfile, pidtmp, stopflag, psig, pexit, pscan, pterm, held, clistart, phup, nsig, plimit, vars_h, vars_m, vars_w>>

\* SyncManager.start, lines 247-253: running = True
StartRunning(p) ==
    /\ ppc[p] = "init" /\ ~psig[p] /\ ~phup[p]
    /\ ppc' = [ppc EXCEPT ![p] = "start"]
    /\ UNCHANGED <<pidfile, pidtmp, stopflag, psig, preg, pexit, pscan, pterm, held, clistart, pwd, phup, nsig, plimit, vars_h, vars_m, vars_w>>

\* reload_config, line 392: the initial pass takes the registry lock
ReloadLocked(p) ==
    /\ ppc[p] = "start" /\ ~psig[p] /\ ~phup[p]
    /\ ppc' = [ppc EXCEPT ![p] = "reload"]
    /\ UNCHANGED <<pidfile, pidtmp, stopflag, psig, preg, pexit, pscan, pterm, held, clistart, pwd, phup, nsig, plimit, vars_h, vars_m, vars_w>>

\* reload_config, lines 393-421: the initial pass ends, the registry is
\* loaded and main() is in its loop (lines 573-576)
ReloadDone(p) ==
    /\ ppc[p] = "reload" /\ ~psig[p] /\ ~phup[p]
    /\ preg' = [preg EXCEPT ![p] = "loaded"]
    /\ ppc' = [ppc EXCEPT ![p] = "run"]
    /\ UNCHANGED <<pidfile, pidtmp, stopflag, psig, pexit, pscan, pterm, held, clistart, pwd, phup, nsig, plimit, vars_h, vars_m, vars_w>>

\* where signal_handler (lines 529-538) takes the main thread of p on SIGTERM:
\*   manager not yet bound (before line 569): the handler raises NameError,
\*     the process ends with status 1 (inside save_pid: lines 449-451);
\*   manager bound, running False: stop() returns at line 262, then remove_pid;
\*   running True: stop() writes the stop flag (lines 265-269) and goes on,
\*     but blocks for ever at line 276 when the interrupted main thread holds
\*     the registry lock (in its initial pass, or in the pass of a SIGHUP
\*     handler), which is not reentrant;
\*   already in the handler: the nested stop() blocks at line 276 if the
\*     outer one is inside it, else the shutdown goes on.
HandleTerm(p) ==
    /\ psig[p] /\ HandlersSet(p)
    /\ psig' = [psig EXCEPT ![p] = FALSE]
    /\ \/ /\ ppc[p] \in {"savepid", "opened", "rename", "construct"}
          /\ ppc' = [ppc EXCEPT ![p] = "dead"]
          /\ pexit' = [pexit EXCEPT ![p] = "1"]
          /\ UNCHANGED stopflag
       \/ /\ ppc[p] = "init"
          /\ ppc' = [ppc EXCEPT ![p] = "rmpid"]
          /\ UNCHANGED <<pexit, stopflag>>
       \/ /\ ppc[p] \in {"start", "run"}
          /\ ppc' = [ppc EXCEPT ![p] = "stopping"]
          /\ stopflag' = TRUE
          /\ UNCHANGED pexit
       \/ /\ ppc[p] \in {"reload", "hup_start", "hup_run"}
          /\ ppc' = [ppc EXCEPT ![p] = "stuck"]
          /\ stopflag' = TRUE
          /\ UNCHANGED pexit
       \/ /\ ppc[p] = "stopping"
          /\ \E blocked \in BOOLEAN :
                ppc' = [ppc EXCEPT ![p] = IF blocked THEN "stuck" ELSE "stopping"]
          /\ stopflag' = TRUE
          /\ UNCHANGED pexit
       \/ /\ ppc[p] \in {"rmpid", "exit0", "stuck"}
          /\ UNCHANGED <<ppc, pexit, stopflag>>
    /\ UNCHANGED <<pidfile, pidtmp, preg, pscan, pterm, held, clistart, pwd, phup, nsig, plimit, vars_h, vars_m, vars_w>>

\* where signal_handler (lines 531-533) takes the main thread of p on SIGHUP:
\*   manager not yet bound: NameError, the process ends with status 1;
\*   running False: reload_config returns at line 380;
\*   running True, the main thread not inside a pass: the handler's pass
\*     starts and takes the registry lock (line 392);
\*   the main thread inside a pass (the initial one, or an earlier handler's):
\*     the handler blocks for ever at line 392 on the lock its own thread holds;
\*   inside stop(): the handler blocks in the same way if stop() is inside
\*     line 276, else its pass runs and stop() goes on.
HandleHup(p) ==
    /\ phup[p] /\ HandlersSet(p)
    /\ phup' = [phup EXCEPT ![p] = FALSE]
    /\ \/ /\ ppc[p] \in {"savepid", "opened", "rename", "construct"}
          /\ ppc' = [ppc EXCEPT ![p] = "dead"]
          /\ pexit' = [pexit EXCEPT ![p] = "1"]
       \/ /\ ppc[p] \in {"init", "rmpid", "exit0", "stuck"}
          /\ UNCHANGED <<ppc, pexit>>
       \/ /\ ppc[p] = "start"
          /\ ppc' = [ppc EXCEPT ![p] = "hup_start"]
          /\ UNCHANGED pexit
       \/ /\ ppc[p] = "run"
          /\ ppc' = [ppc EXCEPT ![p] = "hup_run"]
          /\ UNCHANGED pexit
       \/ /\ ppc[p] \in {"reload", "hup_start", "hup_run"}
          /\ ppc' = [ppc EXCEPT ![p] = "stuck"]
          /\ UNCHANGED pexit
       \/ /\ ppc[p] = "stopping"
          /\ \E blocked \in BOOLEAN :
                ppc' = [ppc EXCEPT ![p] = IF blocked THEN "stuck" ELSE "stopping"]
          /\ UNCHANGED pexit
    /\ UNCHANGED <<pidfile, pidtmp, stopflag, psig, preg, pscan, pterm, held, clistart, pwd, nsig, plimit, vars_h, vars_m, vars_w>>

\* reload_config, lines 393-423, in the SIGHUP handler: the pass ends, the
\* lock is released, the handler returns to where the main thread was
HupDone(p) ==
    /\ ppc[p] \in {"hup_start", "hup_run"} /\ ~psig[p] /\ ~phup[p]
    /\ preg' = [preg EXCEPT ![p] = "loaded"]
    /\ ppc' = [ppc EXCEPT ![p] = IF ppc[p] = "hup_start" THEN "start" ELSE "run"]
    /\ UNCHANGED <<pidfile, pidtmp, stopflag, psig, pexit, pscan, pterm, held, clistart, pwd, phup, nsig, plimit, vars_h, vars_m, vars_w>>

\* cli.py stop_service, lines 422-431 (or the operator's kill, or Ctrl-C):
\* SIGTERM or SIGINT to the daemon the PID file names
CliStop ==
    /\ IsServiceRunning
    /\ ~psig[pidfile]
    /\ nsig < MaxSignals
    /\ nsig' = nsig + 1
    /\ psig' = [psig EXCEPT ![pidfile] = TRUE]
    /\ UNCHANGED <<ppc, pidfile, pidtmp, stopflag, preg, pexit, pscan, pterm, held, clistart, pwd, phup, plimit, vars_h, vars_m, vars_w>>

\* cli.py reload_service, lines 455-465: SIGHUP to the daemon the PID file names
CliReload ==
    /\ IsServiceRunning
    /\ ~phup[pidfile]
    /\ nsig < MaxSignals
    /\ nsig' = nsig + 1
    /\ phup' = [phup EXCEPT ![pidfile] = TRUE]
    /\ UNCHANGED <<ppc, pidfile, pidtmp, stopflag, psig, preg, pexit, pscan, pterm, held, clistart, pwd, plimit, vars_h, vars_m, vars_w>>

\* SyncManager.stop, lines 271-290: every task stopped, the registry cleared,
\* running = False
StopTasks(p) ==
    /\ ppc[p] = "stopping"
    /\ preg' = [preg EXCEPT ![p] = "empty"]
    /\ ppc' = [ppc EXCEPT ![p] = "rmpid"]
    /\ UNCHANGED <<pidfile, pidtmp, stopflag, psig, pexit, pscan, pterm, held, clistart, pwd, phup, nsig, plimit, vars_h, vars_m, vars_w>>

\* remove_pid, lines 453-464: removes PID_FILE whatever pid it holds
RemovePid(p) ==
    /\ ppc[p] = "rmpid"
    /\ IF pidfile # 0
       THEN pidfile' = 0 /\ pidtmp' = 0
       ELSE UNCHANGED <<pidfile, pidtmp>>
    /\ ppc' = [ppc EXCEPT ![p] = "exit0"]
    /\ UNCHANGED <<stopflag, psig, preg, pexit, pscan, pterm, held, clistart, pwd, phup, nsig, plimit, vars_h, vars_m, vars_w>>

\* line 538: sys.exit(0)
ExitZero(p) ==
    /\ ppc[p] = "exit0"
    /\ ppc' = [ppc EXCEPT ![p] = "exited"]
    /\ pexit' = [pexit EXCEPT ![p] = "0"]
    /\ psig' = [psig EXCEPT ![p] = FALSE]
    /\ UNCHANGED <<pidfile, pidtmp, stopflag, preg, pscan, pterm, held, clistart, pwd, phup, nsig, plimit, vars_h, vars_m, vars_w>>

\* SyncManager.running of process p
Running(p) == ppc[p] \in {"start", "reload", "run", "hup_start", "hup_run", "stopping", "stuck"}

\* _watchdog_loop, line 294, the first test of the loop condition by the new
\* thread: it races with line 252 of the main thread
WatchdogBegin(p) ==
    /\ Alive(p) /\ pwd[p] = "started"
    /\ pwd' = [pwd EXCEPT ![p] = IF Running(p) THEN "on" ELSE "ended"]
    /\ UNCHANGED <<ppc, pidfile, pidtmp, stopflag, psig, preg, pexit, pscan, pterm, held, clistart, phup, nsig, plimit, vars_h, vars_m, vars_w>>

\* _watchdog_loop, lines 294-338, one round of the loop in the watchdog
\* thread of process p, and _restart_service (lines 343-366):
\*   running is False: the loop ends;
\*   the PID file is missing, or names a process that is gone: with the stop
\*     flag present the flag is removed and the loop ends; without it the
\*     stale PID file is removed, a daemon process is spawned and the loop ends;
\*   otherwise the thread sleeps until the next round.
WatchdogCheck(p) ==
    /\ Alive(p) /\ pwd[p] = "on"
    /\ IF ~Running(p)
       THEN /\ pwd' = [pwd EXCEPT ![p] = "ended"]
            /\ UNCHANGED <<ppc, pidfile, stopflag, pscan, held>>
       ELSE IF pidfile = 0 \/ ~Alive(pidfile)
       THEN IF stopflag
            THEN /\ stopflag' = FALSE
                 /\ pwd' = [pwd EXCEPT ![p] = "ended"]
                 /\ UNCHANGED <<ppc, pidfile, pscan, held>>
            ELSE /\ Free
                 /\ pidfile' = 0
                 /\ LET q == NextPid
                    IN  /\ ppc' = [ppc EXCEPT ![q] = "cleanup"]
                        /\ pscan' = [pscan EXCEPT ![q] = Duplicates(q)]
                        /\ held' = [held EXCEPT ![q] = [pid |-> 0, reg |-> "none", seen |-> Duplicates(q)]]
                 /\ pwd' = [pwd EXCEPT ![p] = "ended"]
                 /\ UNCHANGED stopflag
       ELSE UNCHANGED <<ppc, pidfile, stopflag, pscan, held, pwd>>
    /\ UNCHANGED <<pidtmp, psig, preg, pexit, pterm, clistart, phup, nsig, plimit, vars_h, vars_m, vars_w>>

\* the environment ends process p without its stop path (SIGKILL, a crash of
\* the interpreter, the machine's out-of-memory killer): its threads end with it
Crash(p) ==
    /\ Alive(p)
    /\ ppc' = [ppc EXCEPT ![p] = "dead"]
    /\ pexit' = [pexit EXCEPT ![p] = "killed"]
    /\ psig' = [psig EXCEPT ![p] = FALSE]
    /\ UNCHANGED <<pidfile, pidtmp, stopflag, preg, pscan, pterm, held, clistart, pwd, phup, nsig, plimit, vars_h, vars_m, vars_w>>

NextProc ==
    \/ DirectStart
    \/ CliStartCheck
    \/ CliStartSpawn
    \/ \E p \in Pids, q \in Pids : ScanGone(p, q)
    \/ \E p \in Pids, q \in Pids : Terminate(p, q)
    \/ \E p \in Pids : Kill(p)
    \/ \E p \in Pids : WaitDone(p)
    \/ \E p \in Pids : CleanupDone(p)
    \/ \E p \in Pids : RegisterHandlers(p)
    \/ \E p \in Pids : SavePidWrite(p)
    \/ \E p \in Pids : SavePidRename(p)
    \/ \E p \in Pids : Construct(p)
    \/ \E p \in Pids : StartRunning(p)
    \/ \E p \in Pids : ReloadLocked(p)
    \/ \E p \in Pids : ReloadDone(p)
    \/ \E p \in Pids : HandleTerm(p)
    \/ \E p \in Pids : StopTasks(p)
    \/ \E p \in Pids : RemovePid(p)
    \/ \E p \in Pids : ExitZero(p)
    \/ \E p \in Pids : WatchdogBegin(p)
    \/ \E p \in Pids : WatchdogCheck(p)
    \/ \E p \in Pids : Crash(p)
    \/ \E p \in Pids : HandleHup(p)
    \/ \E p \in Pids : HupDone(p)
    \/ CliStop
    \/ CliReload

SpecProc == InitProc /\ [][NextProc]_vars

\* the steps the threads of process p take by themselves
ProcStep(p) ==
    \/ \E q \in Pids : ScanGone(p, q)
    \/ \E q \in Pids : Terminate(p, q)
    \/ Kill(p)
    \/ WaitDone(p)
    \/ CleanupDone(p)
    \/ RegisterHandlers(p)
    \/ SavePidWrite(p)
    \/ SavePidRename(p)
    \/ Construct(p)
    \/ StartRunning(p)
    \/ ReloadLocked(p)
    \/ ReloadDone(p)
    \/ HandleTerm(p)
    \/ HandleHup(p)
    \/ HupDone(p)
    \/ StopTasks(p)
    \/ RemovePid(p)
    \/ ExitZero(p)

\* the processes with the scheduler's guarantee: a thread of a live process
\* that can take a step takes one. Nothing is assumed of the environment
\* (starts by hand or by the CLI, crashes).
SpecProcFair ==
    /\ SpecProc
    /\ \A p \in Pids :
          /\ WF_vars(ProcStep(p))
          /\ WF_vars(WatchdogBegin(p))
          /\ WF_vars(WatchdogCheck(p))

\* ---------------------------------------------------------------- SpecRace
\* Up to MaxRace daemon processes: the starts that meet a daemon which is
\* running or shutting down. No SIGHUP and no start through the CLI.

InitRace == InitProcs(MaxRace) /\ InitMainVars({"a"}) /\ InitHandlerVars /\ InitWatchVars

\* python -m secure_cloud_syncer.manager is run by hand: the first daemon, or
\* one more while the daemon the PID file names is in its loop or in stop()
RaceStart ==
    /\ \/ \A p \in Pids : ppc[p] = "none"
       \/ pidfile # 0 /\ ppc[pidfile] \in {"run", "stopping"}
    /\ DirectStart

\* a process that is still in its duplicate cleanup is ended from outside
\* (Ctrl-C before the handlers are registered, SIGKILL)
RaceCrash(p) == ppc[p] = "cleanup" /\ Crash(p)

NextRace ==
    \/ RaceStart
    \/ \E p \in Pids, q \in Pids : ScanGone(p, q)
    \/ \E p \in Pids, q \in Pids : Terminate(p, q)
    \/ \E p \in Pids : Kill(p)
    \/ \E p \in Pids : WaitDone(p)
    \/ \E p \in Pids : CleanupDone(p)
    \/ \E p \in Pids : RegisterHandlers(p)
    \/ \E p \in Pids : SavePidWrite(p)
    \/ \E p \in Pids : SavePidRename(p)
    \/ \E p \in Pids : Construct(p)
    \/ \E p \in Pids : StartRunning(p)
    \/ \E p \in Pids : ReloadLocked(p)
    \/ \E p \in Pids : ReloadDone(p)
    \/ \E p \in Pids : HandleTerm(p)
    \/ \E p \in Pids : StopTasks(p)
    \/ \E p \in Pids : RemovePid(p)
    \/ \E p \in Pids : ExitZero(p)
    \/ \E p \in Pids : WatchdogBegin(p)
    \/ \E p \in Pids : WatchdogCheck(p)
    \/ \E p \in Pids : RaceCrash(p)
    \/ CliStop

SpecRace == InitRace /\ [][NextRace]_vars

\* ----------------------------------------------------------------- SpecPid
\* The content of the PID file. save_pid in its steps (open and truncate of
\* PID_FILE.tmp, write and close, rename), a daemon process that exists
\* before it lists the other processes, and the CLI's stop_sync, which reads
\* and writes PID_FILE as a JSON object.

\* the content of a file that was opened for writing and not yet written
Empty == 0 - 1

\* the content json.dump leaves: an object of task names
Json == 0 - 2

\* the process exists (interpreter start, imports) before main() runs
PidStart ==
    /\ Free
    /\ ppc' = [ppc EXCEPT ![NextPid] = "import"]
    /\ UNCHANGED <<pidfile, pidtmp, stopflag, psig, preg, pexit, pscan, pterm, held, clistart, pwd, phup, nsig, plimit, vars_h, vars_m, vars_w>>

\* line 494, psutil.process_iter: the list of processes is taken now
PidScan(p) ==
    /\ ppc[p] = "import"
    /\ SpawnProc(p)
    /\ UNCHANGED <<pidfile, pidtmp, stopflag, psig, preg, pexit, pterm, clistart, pwd, phup, nsig, plimit, vars_h, vars_m, vars_w>>

\* save_pid writes PID_FILE in place (faulty variant)
SavePidOpenInPlace(p) ==
    /\ ppc[p] = "savepid" /\ ~psig[p] /\ ~phup[p]
    /\ pidfile' = Empty
    /\ ppc' = [ppc EXCEPT ![p] = "opened"]
    /\ UNCHANGED <<pidtmp, stopflag, psig, preg, pexit, pscan, pterm, held, clistart, pwd, phup, nsig, plimit, vars_h, vars_m, vars_w>>

\* save_pid, line 441: open(temp_pid_file, 'w') creates or truncates the file
SavePidOpen(p) ==
    /\ ppc[p] = "savepid" /\ ~psig[p] /\ ~phup[p]
    /\ pidtmp' = Empty
    /\ ppc' = [ppc EXCEPT ![p] = "opened"]
    /\ UNCHANGED <<pidfile, stopflag, psig, preg, pexit, pscan, pterm, held, clistart, pwd, phup, nsig, plimit, vars_h, vars_m, vars_w>>

\* save_pid, line 442 and the end of the with block: str(os.getpid()) is
\* written and the file closed
SavePidPut(p) ==
    /\ ppc[p] = "opened" /\ ~psig[p] /\ ~phup[p]
    /\ pidtmp' = p
    /\ ppc' = [ppc EXCEPT ![p] = "rename"]
    /\ UNCHANGED <<pidfile, stopflag, psig, preg, pexit, pscan, pterm, held, clistart, pwd, phup, nsig, plimit, vars_h, vars_m, vars_w>>

\* cli.py get_running_syncs, lines 79-97: anything but a JSON object reads as {}
IsDict(content) == content = Json

\* cli.py stop_sync, lines 349-373: save_running_syncs rewrites PID_FILE only
\* when the name was found in the object read from it
StopSync ==
    /\ IF IsDict(pidfile) THEN pidfile' = Json ELSE UNCHANGED pidfile
    /\ UNCHANGED <<ppc, pidtmp, stopflag, psig, preg, pexit, pscan, pterm, held, clistart, pwd, phup, nsig, plimit, vars_h, vars_m, vars_w>>

NextPidFile ==
    \/ PidStart
    \/ \E p \in Pids : PidScan(p)
    \/ \E p \in Pids, q \in Pids : ScanGone(p, q)
    \/ \E p \in Pids, q \in Pids : Terminate(p, q)
    \/ \E p \in Pids : Kill(p)
    \/ \E p \in Pids : WaitDone(p)
    \/ \E p \in Pids : CleanupDone(p)
    \/ \E p \in Pids : RegisterHandlers(p)
    \/ \E p \in Pids : SavePidOpen(p)
    \/ \E p \in Pids : SavePidPut(p)
    \/ \E p \in Pids : SavePidRename(p)
    \/ \E p \in Pids : Construct(p)
    \/ \E p \in Pids : StartRunning(p)
    \/ \E p \in Pids : ReloadLocked(p)
    \/ \E p \in Pids : ReloadDone(p)
    \/ \E p \in Pids : HandleTerm(p)
    \/ \E p \in Pids : StopTasks(p)
    \/ \E p \in Pids : RemovePid(p)
    \/ \E p \in Pids : ExitZero(p)
    \/ \E p \in Pids : WatchdogBegin(p)
    \/ \E p \in Pids : WatchdogCheck(p)
    \/ \E p \in Pids : Crash(p)
    \/ CliStop
    \/ StopSync

SpecPid == InitProc /\ [][NextPidFile]_vars

\* ---------------------------------------------------------------- SpecTwin
\* Two daemon processes started by hand, with nothing else acting on them: no
\* CLI command, no crash, no watchdog restart. A signal is delivered some time
\* after it was sent: os.kill returns when the signal is pending for the
\* target, and a target that is itself inside os.kill completes that call
\* before the pending signal ends it. (With two processes and nothing else
\* ending them, a listed process is never found gone: no ScanGone.)

Twins == 1..MaxProcs

\* a SIGTERM is pending for p, which has no handler for it: p runs no further
\* statement of its program
Doomed(p) == psig[p] /\ ~HandlersSet(p)

\* line 506, proc.terminate(): SIGTERM is made pending for q
TwinTerminate(p, q) ==
    /\ ppc[p] = "cleanup" /\ pterm[p] = 0
    /\ q \in pscan[p] /\ Alive(q)
    /\ pscan' = [pscan EXCEPT ![p] = @ \ {q}]
    /\ pterm' = [pterm EXCEPT ![p] = q]
    /\ psig' = [psig EXCEPT ![q] = TRUE]
    /\ UNCHANGED <<ppc, pexit, pidfile, pidtmp, stopflag, preg, held, clistart, pwd, phup, nsig, plimit, vars_h, vars_m, vars_w>>

\* the default action of SIGTERM: the process is ended
DefaultTerm(p) ==
    /\ Alive(p) /\ Doomed(p)
    /\ ppc' = [ppc EXCEPT ![p] = "dead"]
    /\ pexit' = [pexit EXCEPT ![p] = "killed"]
    /\ psig' = [psig EXCEPT ![p] = FALSE]
    /\ UNCHANGED <<pidfile, pidtmp, stopflag, preg, pscan, pterm, held, clistart, pwd, phup, nsig, plimit, vars_h, vars_m, vars_w>>

NextTwin ==
    \/ PidStart
    \/ \E p \in Twins : ~Doomed(p) /\ PidScan(p)
    \/ \E p \in Twins, q \in Twins : TwinTerminate(p, q)
    \/ \E p \in Twins : DefaultTerm(p)
    \/ \E p \in Twins : ~Doomed(p) /\ Kill(p)
    \/ \E p \in Twins : ~Doomed(p) /\ WaitDone(p)
    \/ \E p \in Twins : ~Doomed(p) /\ CleanupDone(p)
    \/ \E p \in Twins : ~Doomed(p) /\ RegisterHandlers(p)
    \/ \E p \in Twins : SavePidOpen(p)
    \/ \E p \in Twins : SavePidPut(p)
    \/ \E p \in Twins : SavePidRename(p)
    \/ \E p \in Twins : Construct(p)
    \/ \E p \in Twins : StartRunning(p)
    \/ \E p \in Twins : ReloadLocked(p)
    \/ \E p \in Twins : ReloadDone(p)
    \/ \E p \in Twins : HandleTerm(p)
    \/ \E p \in Twins : StopTasks(p)
    \/ \E p \in Twins : RemovePid(p)
    \/ \E p \in Twins : ExitZero(p)

SpecTwin == InitProc /\ [][NextTwin]_vars

\* both processes have been started
BothStarted == \A p \in Twins : ppc[p] # "none"

\* no process has a step of its startup or shutdown left to take
TwinsAtRest == \A p \in Twins : ppc[p] \in {"run", "exited", "dead"} /\ ~psig[p]

\* C39 (concurrent starts leave one daemon): of two daemons started by hand
\* one is always alive, and when both have come to rest exactly one is in its
\* loop and the PID file holds its pid.
C39_OneDaemonLeft ==
    BothStarted =>
        /\ \E p \in Twins : Alive(p)
        /\ TwinsAtRest => \E p \in Twins :
                              /\ ppc[p] = "run" /\ pidfile = p
                              /\ \A q \in Twins \ {p} : ~Alive(q)

\* the PID file and its temporary file hold what one daemon wrote
PidContent(file) == file \in Pids

\* C34: whenever the PID file exists it holds exactly one process id: it is
\* never seen empty and never holds the JSON object of the CLI's bookkeeping
C34_PidFileIsOnePid == pidfile # 0 => PidContent(pidfile)

\* a daemon that crashed left its PID file, the next one has truncated the
\* temporary file and has not written its pid yet
C34_Witness ==
    \E p \in Pids : ppc[p] = "opened" /\ pidtmp = Empty /\ pidfile # 0 /\ pidfile # p

\* ------------------------------------------- properties of the processes

\* C9: a daemon started while the PID file names a live daemon process never
\* becomes the running daemon and never exits with status 0, and the daemon
\* that held the lock stays alive, is not shut down, keeps its loaded
\* registry and stays the pid in the PID file.
C9_ExclusiveLock ==
    \A p \in Pids :
        held[p].pid # 0 =>
            /\ ppc[p] \notin {"construct", "init", "start", "reload", "run"}
            /\ pidfile # p
            /\ pexit[p] # "0"
            /\ Alive(held[p].pid)
            /\ ppc[held[p].pid] \notin {"stopping", "stuck", "rmpid", "exit0"}
            /\ ~psig[held[p].pid]
            /\ pidfile = held[p].pid
            /\ held[p].reg = "loaded" => preg[held[p].pid] = "loaded"

\* the daemon process p has completed its startup (the cleanup, then save_pid)
\* and has not ended
Started(p) ==
    ppc[p] \in {"construct", "init", "start", "reload", "run", "hup_start", "hup_run",
                "stopping", "stuck", "rmpid", "exit0"}

\* C21 (single instance): no two live daemon processes have both completed
\* startup; when a daemon has completed startup every process its scan listed
\* has ended; and when it is the one daemon process alive the PID file holds
\* its pid, until its own shutdown removes it.
C21_SingleInstance ==
    \A p \in Pids :
        Started(p) =>
            /\ \A q \in Pids \ {p} : ~Started(q)
            /\ \A q \in held[p].seen : ~Alive(q)
            /\ (ppc[p] # "exit0" /\ \A q \in Pids \ {p} : ~Alive(q)) => pidfile = p

\* the step starts a daemon process
Spawned == \E q \in Pids : ppc[q] = "none" /\ ppc'[q] # "none"

\* C22 (no respawn on an intentional stop): the watchdog of a daemon that is
\* in its graceful shutdown (stop() entered on a stop signal) starts no
\* daemon process; and a watchdog round that finds the PID file missing or
\* stale while the stop flag exists starts none and ends the watchdog.
C22_NoRespawnOnStop ==
    [][\A p \in Pids :
          WatchdogCheck(p) =>
             /\ ppc[p] \in {"stopping", "stuck"} => ~Spawned
             /\ (Running(p) /\ stopflag /\ (pidfile = 0 \/ ~Alive(pidfile)))
                => ~Spawned /\ pwd'[p] = "ended"]_vars

\* C26: the watchdog thread of a daemon that has been constructed and has not
\* yet been told to stop does not end at its first test of the loop
\* condition: whatever the interleaving of the new thread with the main
\* thread's running = True, the loop reaches its first check.
C26_WatchdogStaysActive ==
    [][\A p \in Pids :
          (ppc[p] = "init" /\ pwd[p] = "started") => pwd'[p] # "ended"]_vars

\* process p has completed its startup and has not been told to stop
StartupComplete(p) == ppc[p] \in {"run", "hup_start", "hup_run"}

\* process q is not there, or has ended by its graceful shutdown (status 0)
GoneGracefully(q) == ppc[q] = "none" \/ (ppc[q] = "exited" /\ pexit[q] = "0")

\* C28: when a daemon has completed its startup, and every other daemon there
\* has been has ended by its graceful shutdown, the stop flag is absent: a
\* flag written by the shutdown of an earlier daemon has been consumed or
\* cleared by then.
C28_MarkerDoesNotOutlive ==
    \A p \in Pids :
        (StartupComplete(p) /\ \A q \in Pids \ {p} : GoneGracefully(q)) => ~stopflag

\* C12 (crash recovery): when the running daemon, which the PID file names,
\* has been ended without its stop path (no stop flag), no daemon process is
\* alive and a
\* process can still be started, then eventually a daemon process is alive
\* again.
C12_CrashRecovery ==
    \A p \in Pids :
        (/\ pidfile = p
         /\ ppc[p] = "dead"
         /\ preg[p] = "loaded"
         /\ ~stopflag
         /\ \A q \in Pids : ~Alive(q)
         /\ Free)
        ~> (\E q \in Pids : Alive(q))

\* C13 (graceful shutdown always completes): when SIGTERM or SIGINT is pending
\* for a daemon that has its handlers and its manager, the daemon eventually
\* has exited with status 0, its registry empty and the PID file no longer
\* its own - unless somebody kills it first.
C13_GracefulShutdown ==
    \A p \in Pids :
        (psig[p] /\ ppc[p] \in {"init", "start", "reload", "run", "hup_start", "hup_run"})
        ~> (\/ pexit[p] = "killed"
            \/ /\ ppc[p] = "exited"
               /\ pexit[p] = "0"
               /\ preg[p] = "empty"
               /\ pidfile # p)

\* C14 (reload signal): when SIGHUP is pending for a running daemon that is
\* not shutting down, eventually the handler's pass has completed and the
\* daemon is running on - unless it is ended or signalled to stop meanwhile.
C14_ReloadSignal ==
    \A p \in Pids :
        (phup[p] /\ ~psig[p] /\ ppc[p] \in {"start", "reload", "run", "hup_start", "hup_run"})
        ~> (\/ ~Alive(p)
            \/ psig[p]
            \/ ~phup[p] /\ ppc[p] \in {"start", "reload", "run"})

\* ------------------------------------------------ properties of the daemon

\* SyncManager.get_status
GetStatus == [n \in {m \in Names : tasks[m] # 0} |-> TaskStatus(objs[tasks[n]])]

\* the executor runs in flight for name n: those of this daemon's tasks and
\* one left behind by a killed daemon
RunsOfDaemon(n) == {i \in ObjIds : objs[i].name = n /\ objs[i].run # "none"}
InFlight(n) == Cardinality(RunsOfDaemon(n)) + (IF n \in orphans THEN 1 ELSE 0)

\* C1 (mutual exclusion): at most one executor run per task name is in flight.
C1_MutualExclusion == \A n \in Names : InFlight(n) <= 1

\* (auxiliary) within one daemon process no two runs of a name overlap
OneRunPerDaemon == \A n \in Names : Cardinality(RunsOfDaemon(n)) <= 1

\* thread t has finished the loops of its pass and is about to return
PassDone(t) == rc[t].pc = "update" /\ rc[t].k > Len(NameSeq)

\* the pass of t found n registered and loaded a config without it
Removed(t, n) == pre.tasks[n] # 0 /\ rc[t].new_config[n] = NoConfig

\* C36 (reconcile postcondition): when a pass of reload_config has finished
\* its loops, every registered name is a name of the config it loaded and
\* every name of that config whose status is not paused is registered.
C36_ReconcilePostcondition ==
    \A t \in RThreads : PassDone(t) =>
        \A n \in Names :
            /\ tasks[n] # 0 => rc[t].new_config[n] # NoConfig
            /\ (rc[t].new_config[n] # NoConfig /\ rc[t].new_config[n].status # "paused")
                  => tasks[n] # 0

\* a pass is over in which the start of a task of the loaded config failed:
\* the task is registered all the same
C36_Witness ==
    \E t \in RThreads : PassDone(t) /\ \E n \in Names :
        /\ rc[t].new_config[n] # NoConfig /\ rc[t].new_config[n].status # "paused"
        /\ tasks[n] # 0 /\ objs[tasks[n]].last_error /\ pre.tasks[n] = 0

\* thread t is inside the locked part of reload_config
InPass(t) == rc[t].pc \in {"remove", "update", "join", "start", "initsync"}

\* what a pass over the loaded entry c leaves for name n: no entry and not
\* registered; registered with a task made from c; or, for a paused entry,
\* not registered or registered with no watcher
Settled(reg, cfg, alive, n, c) ==
    IF c = NoConfig
    THEN reg[n] = 0
    ELSE \/ reg[n] # 0 /\ cfg[n] = c
         \/ c.status = "paused" /\ (reg[n] = 0 \/ n \notin alive)

\* the pass of t is over and has left every name settled for the config it loaded
SettledAfter(t) ==
    LET post == Snapshot(tasks, objs)
    IN  \A n \in Names : Settled(post.tasks, post.cfg, post.alive, n, rc[t].new_config[n])

\* the pass of t found every name as a pass over the same content leaves it
SettledBefore(t) ==
    \A n \in Names : Settled(pre.tasks, pre.cfg, pre.alive, n, rc[t].new_config[n])

\* C37 (reconcile is idempotent): a pass of reload_config leaves every name
\* settled for the content it loaded, and a pass that finds every name so
\* settled for the content it loads (the second of two passes over the same
\* content) keeps the registry with the same task objects and the same
\* watchers alive, starts no task and so causes no initial sync.
C37_ReconcileIdempotent ==
    \A t \in RThreads :
        /\ PassDone(t) => SettledAfter(t)
        /\ (InPass(t) /\ SettledBefore(t)) =>
              /\ tasks = pre.tasks
              /\ Snapshot(tasks, objs).alive = pre.alive
              /\ rc[t].pc \in {"remove", "update"}

\* a pass over the content a running task was made from has finished
C37_Witness ==
    \E t \in RThreads : PassDone(t) /\ SettledBefore(t) /\ pre.alive # {}

\* C5 (no orphaned watcher): when a pass returns whose loaded config no longer
\* holds a registered name, the name is not in the registry and no watcher
\* of it is alive.
C5_NoOrphanedWatcher ==
    \A t \in RThreads : PassDone(t) =>
        \A n \in Names : Removed(t, n) =>
            /\ tasks[n] = 0
            /\ \A i \in ObjIds : objs[i].name = n => objs[i].observer = "None"

C5_Witness ==
    \E t \in RThreads : PassDone(t) /\ \E n \in Names : Removed(t, n) /\ n \in pre.alive

\* the pass of t found n registered with a config unequal to the loaded one,
\* which is not paused
Changed(t, n) ==
    /\ pre.tasks[n] # 0
    /\ rc[t].new_config[n] # NoConfig
    /\ pre.cfg[n] # rc[t].new_config[n]
    /\ rc[t].new_config[n].status # "paused"

\* what C6 says of every restart: the old watcher stopped, the old object as
\* it was, a new object with the new config and a restart counter of zero
Replaced(t, n) ==
    /\ objs[pre.tasks[n]].observer = "None"
    /\ objs[pre.tasks[n]].config = pre.cfg[n]
    /\ tasks[n] # 0
    /\ tasks[n] # pre.tasks[n]
    /\ objs[tasks[n]].config = rc[t].new_config[n]
    /\ objs[tasks[n]].restart_count = 0

\* C6 as claimed: after a pass that found a changed config the registry holds
\* a new task with the new config, counters at zero and its own new watcher.
C6_RestartOnChange ==
    \A t \in RThreads : PassDone(t) =>
        \A n \in Names : Changed(t, n) =>
            /\ Replaced(t, n)
            /\ objs[tasks[n]].error_count = 0
            /\ objs[tasks[n]].observer = "alive"

\* C6 as amended: the new task has its own watcher and an error counter of
\* zero when its watch setup succeeded; when the setup failed it has no
\* watcher and the failure is recorded (error counter 1).
C6_RestartOnChangeAmended ==
    \A t \in RThreads : PassDone(t) =>
        \A n \in Names : Changed(t, n) =>
            /\ Replaced(t, n)
            /\ \/ /\ objs[tasks[n]].observer = "alive"
                  /\ objs[tasks[n]].error_count = 0
               \/ /\ objs[tasks[n]].observer = "None"
                  /\ objs[tasks[n]].error_count = 1
                  /\ objs[tasks[n]].last_error

C6_Witness ==
    \E t \in RThreads : PassDone(t) /\ \E n \in Names :
        Changed(t, n) /\ n \in pre.alive /\ objs[tasks[n]].observer = "alive"

\* the pass of t found n running and loaded its config with only the status
\* changed, to paused
NewlyPaused(t, n) ==
    /\ pre.tasks[n] # 0
    /\ n \in pre.alive
    /\ pre.cfg[n].status = "active"
    /\ rc[t].new_config[n] = [pre.cfg[n] EXCEPT !.status = "paused"]

\* C7 (pause): such a pass stops the watcher and leaves the task registered;
\* the status query lists it with running = false.
C7_Pause ==
    \A t \in RThreads : PassDone(t) =>
        \A n \in Names : NewlyPaused(t, n) =>
            /\ tasks[n] = pre.tasks[n]
            /\ objs[tasks[n]].observer = "None"
            /\ n \in DOMAIN GetStatus
            /\ GetStatus[n].running = FALSE

C7_Witness == \E t \in RThreads : PassDone(t) /\ \E n \in Names : NewlyPaused(t, n)

\* C8 (resume): a pass that finds a task an earlier pass had paused, and loads
\* its config as it was before the pause (status active), leaves the task's
\* watcher alive.
C8_Resume ==
    \A t \in RThreads : PassDone(t) =>
        \A n \in Names :
            (/\ pre.tasks[n] # 0
             /\ n \in pre.paused
             /\ pre.cfg[n].status = "active"
             /\ rc[t].new_config[n] = pre.cfg[n])
            => tasks[n] # 0 /\ objs[tasks[n]].observer = "alive"

\* C10 (failures are counted): the error_count of a started task's status is
\* the number of its executor runs that failed since it started.
C10_FailuresCounted ==
    \A n \in DOMAIN GetStatus :
        objs[tasks[n]].start_time => GetStatus[n].error_count = objs[tasks[n]].failures

\* C11 (an executor failure is not fatal to the task): the step in which an
\* executor run of a task fails leaves the registry as it is, leaves the
\* task's watcher as it is (alive if it was alive) and clears the handler's
\* sync_in_progress flag; and when the watcher of a task that has had a failed
\* run handles a file-change event more than a debounce interval after the
\* last run was started, a new executor run starts.
C11_FailureNotFatal ==
    [][\A i \in ObjIds :
          /\ ObsExecDone(i, "fail") =>
                /\ tasks' = tasks
                /\ objs'[i].observer = objs[i].observer
                /\ ~objs'[i].handler.sync_in_progress
          /\ \A tm \in ClockReadings :
                (/\ objs[i].failures > 0
                 /\ tm - objs[i].handler.last_sync > objs[i].handler.debounce_time
                 /\ ObsDispatch(i, tm))
                => objs'[i].run = "event" /\ objs'[i].handler.last_sync = tm]_vars

\* a registered task with a live watcher has had a failed run and a new run
\* of it is in flight
C11_Witness ==
    \E n \in Names :
        /\ tasks[n] # 0
        /\ objs[tasks[n]].failures > 0
        /\ objs[tasks[n]].observer = "alive"
        /\ objs[tasks[n]].run = "event"
        /\ objs[tasks[n]].handler.last_sync = StartTime + 2 * Debounce + 1

\* C23 (a new paused task is registered but not started): after a pass that
\* found, with status paused, a name the registry did not hold, the registry
\* holds the name, the status query lists it, and it has no watcher.
C23_NewPausedRegistered ==
    \A t \in RThreads : PassDone(t) =>
        \A n \in Names :
            (/\ pre.tasks[n] = 0
             /\ rc[t].new_config[n] # NoConfig
             /\ rc[t].new_config[n].status = "paused")
            => /\ tasks[n] # 0
               /\ n \in DOMAIN GetStatus
               /\ objs[tasks[n]].observer = "None"

\* ----------------------------------------------------------------- SpecIso
\* One daemon with two task names in one directory each: the passes of
\* reload_config over a config the CLI adds to and removes from. No file
\* events: every executor run is a task's initial sync.

InitIso == InitMainVars({"a", "b"}) /\ InitHandlerVars /\ InitProcVars /\ InitWatchVars

NextIso ==
    \/ \E n \in Names : CliAdd(n, "d1")
    \/ \E n \in Names : CliRemove(n)
    \/ ManagerStart
    \/ \E elapsed \in BOOLEAN : ConfigModified(elapsed)
    \/ \E t \in RThreads : ReloadLock(t)
    \/ \E t \in RThreads : RemoveStep(t)
    \/ \E t \in RThreads : UpdateStep(t)
    \/ \E t \in RThreads, outcome \in {"raise", "run"} : StartStep(t, outcome)
    \/ \E t \in RThreads, outcome \in {"ok", "fail"} : InitSyncDone(t, outcome)
    \/ \E t \in RThreads : ReloadReturn(t)

SpecIso == InitIso /\ [][NextIso]_vars

\* --------------------------------------------------------------- SpecStart
\* One daemon and one task name, with a config file that is also edited by
\* hand: the entries reload_config loads (lines 384-390) are whatever JSON
\* the file holds, and an entry may lack a field that cli.add_sync writes.

\* the file is edited by hand: an active entry without local_dir
HandEdit(n) ==
    /\ config[n] = NoConfig
    /\ WriteConfig([config EXCEPT ![n] = [status |-> "active"]])

NextStart ==
    \/ \E n \in Names, d \in Dirs : CliAdd(n, d)
    \/ \E n \in Names : HandEdit(n)
    \/ \E n \in Names : CliRemove(n)
    \/ ManagerStart
    \/ \E elapsed \in BOOLEAN : ConfigModified(elapsed)
    \/ \E t \in RThreads : ReloadLock(t)
    \/ \E t \in RThreads : RemoveStep(t)
    \/ \E t \in RThreads : UpdateStep(t)
    \/ \E t \in RThreads, outcome \in {"raise", "run"} : StartStep(t, outcome)
    \/ \E t \in RThreads, outcome \in {"ok", "fail"} : InitSyncDone(t, outcome)
    \/ \E t \in RThreads : ReloadReturn(t)

SpecStart == InitMain /\ [][NextStart]_vars

\* ------------------------------------------------------------------ SpecCw
\* The ConfigWatcher with its clock: the config observer's thread takes the
\* modification events of the config directory one by one and calls
\* on_modified (lines 89-96), which reads the clock when it is called and
\* runs reload_config (the whole pass, initial syncs included) before it
\* returns. One daemon, one task name, no file events of the tasks.

\* the clock advances by a second: only while every thread is asleep, waits
\* for the lock or waits for an executor run (the steps of a pass themselves
\* and the taking of a waiting event by the idle observer thread take less)
CwTick ==
    /\ wnow < CfgMaxTime
    /\ ~(wq # <<>> /\ rc["cfgw"].pc = "idle")
    /\ \A t \in RThreads :
          \/ rc[t].pc \in {"idle", "initsync"}
          \/ rc[t].pc = "lock" /\ lock # "free"
    /\ wnow' = wnow + 1
    /\ UNCHANGED <<last_modified, wq, wlog, vars_h, vars_m, vars_p>>

\* the events that have arrived so far
CwArrived == Len(wq) + Len(wlog)

\* cli.save_config, lines 69-77, of the document new: the file is modified
\* and the event is queued with the time of the write
CwWrite(new) ==
    /\ CwArrived < MaxCfgWrites
    /\ config' = new
    /\ wq' = Append(wq, [file |-> "config", at |-> wnow])
    /\ UNCHANGED <<wnow, last_modified, wlog, cfgEvents, running, mainpc, lock, rc, tasks, objs, orphans,
                   pre, health, lastStatus, cfgfile, cliw, vars_h, vars_p>>

\* cli.add_sync and cli.remove_sync
CwAdd(n, d) ==
    /\ config[n] = NoConfig
    /\ CwWrite([config EXCEPT ![n] = [local_dir |-> d, status |-> "active"]])

CwRemove(n) ==
    /\ config[n] # NoConfig
    /\ CwWrite([config EXCEPT ![n] = NoConfig])

\* another file of the directory of CONFIG_FILE is modified (lines 78-81: the
\* PID file, the stop flag and rclone's own files are in ~/.rclone too)
CwOther ==
    /\ CwArrived < MaxCfgWrites
    /\ wq' = Append(wq, [file |-> "other", at |-> wnow])
    /\ UNCHANGED <<wnow, last_modified, wlog, vars_h, vars_m, vars_p>>

\* ConfigWatcher.on_modified, lines 89-96, called by the observer thread for
\* the next event of its queue
OnModified ==
    /\ wq # <<>>
    /\ rc["cfgw"].pc = "idle"
    /\ LET e == Head(wq)
           trigger == e.file = "config" /\ wnow - last_modified > CfgDebounce
       IN  /\ wq' = Tail(wq)
           /\ wlog' = Append(wlog, [file |-> e.file, at |-> e.at, seen |-> wnow, trigger |-> trigger])
           /\ last_modified' = IF trigger THEN wnow ELSE last_modified
           /\ IF trigger THEN ReloadEnter("cfgw", running) ELSE UNCHANGED rc
    /\ UNCHANGED <<wnow, config, cfgEvents, running, mainpc, lock, tasks, objs, orphans, pre, health,
                   lastStatus, cfgfile, cliw, vars_h, vars_p>>

NextCw ==
    \/ CwTick
    \/ \E n \in Names, d \in Dirs : CwAdd(n, d)
    \/ \E n \in Names : CwRemove(n)
    \/ CwOther
    \/ OnModified
    \/ ManagerStart
    \/ \E t \in RThreads : ReloadLock(t)
    \/ \E t \in RThreads : RemoveStep(t)
    \/ \E t \in RThreads : UpdateStep(t)
    \/ \E t \in RThreads, outcome \in {"raise", "run"} : StartStep(t, outcome)
    \/ \E t \in RThreads, outcome \in {"ok", "fail"} : InitSyncDone(t, outcome)
    \/ \E t \in RThreads : ReloadReturn(t)

SpecCw == InitMain /\ [][NextCw]_vars

\* ----------------------------------------------------------------- SpecTwo
\* One daemon with two task names and the file events of their directories:
\* each started task has its own Observer thread and its own ChangeHandler
\* (monitor.py, lines 305-317); the initial sync of a task being started runs
\* in the thread of the pass, under the registry lock.

NextTwo ==
    \/ \E n \in Names : CliAdd(n, "d1")
    \/ ManagerStart
    \/ ConfigModified(TRUE)
    \/ \E t \in RThreads : ReloadLock(t)
    \/ \E t \in RThreads : RemoveStep(t)
    \/ \E t \in RThreads : UpdateStep(t)
    \/ \E t \in RThreads : StartStep(t, "run")
    \/ \E t \in RThreads, outcome \in {"ok", "fail"} : InitSyncDone(t, outcome)
    \/ \E t \in RThreads : ReloadReturn(t)
    \/ \E i \in ObjIds : ObsArrive(i)
    \/ \E i \in ObjIds, tm \in ClockReadings : ObsDispatch(i, tm)
    \/ \E i \in ObjIds, outcome \in {"ok", "fail"} : ObsExecDone(i, outcome)

SpecTwo == InitIso /\ [][NextTwo]_vars

\* the start of task m failed in the pass that is running: the pass made the
\* object and its start() recorded an error
FailedInPass(m) ==
    /\ tasks[m] # 0
    /\ tasks[m] # pre.tasks[m]
    /\ objs[tasks[m]].observer = "None"
    /\ objs[tasks[m]].error_count > 0

\* C24 (task isolation): at the end of a pass in which the start of a task
\* failed the daemon is running, every other name the loaded config holds as
\* active is registered with its loaded config, and every other task that
\* was running and whose config did not change is the same object, its
\* watcher alive.
C24_TaskIsolation ==
    \A t \in RThreads : PassDone(t) =>
        \A m \in Names : FailedInPass(m) =>
            /\ running
            /\ \A n \in Names \ {m} :
                  /\ (rc[t].new_config[n] # NoConfig /\ rc[t].new_config[n].status = "active")
                     => tasks[n] # 0 /\ objs[tasks[n]].config = rc[t].new_config[n]
                  /\ (n \in pre.alive /\ rc[t].new_config[n] = pre.cfg[n])
                     => tasks[n] = pre.tasks[n] /\ objs[tasks[n]].observer = "alive"

\* a pass in which the start of "a" failed has started "b" after it
C24_Witness ==
    \E t \in RThreads :
        /\ PassDone(t)
        /\ FailedInPass("a")
        /\ tasks["b"] # 0 /\ tasks["b"] # pre.tasks["b"]
        /\ objs[tasks["b"]].observer = "alive"


\* the step leaves the observer of task object i alive no longer
StopCalled(i) == objs[i].observer = "alive" /\ objs'[i].observer # "alive"

\* C27: stopping a task while its executor is in flight does not end the run:
\* the step that stops a task with a run in flight leaves the run as it is
\* and the stop does not return yet (the observer is "stopping", not joined);
\* the join returns only when no run is in flight; and a task object whose
\* observer has been stopped starts no run any more.
C27_StopLetsSyncFinish ==
    [][\A i \in ObjIds :
          /\ (StopCalled(i) /\ objs[i].run # "none")
                => objs'[i].run = objs[i].run /\ objs'[i].observer = "stopping"
          /\ (objs[i].observer = "stopping" /\ objs'[i].observer # "stopping")
                => objs[i].run = "none" /\ objs'[i].observer = "None"
          /\ (objs[i].observer = "stopping" /\ objs'[i].run # objs[i].run)
                => objs'[i].run = "none"
          /\ (objs[i] # NoObj /\ objs[i].observer = "None" /\ objs[i].run = "none")
                => objs'[i] = NoObj \/ objs'[i].run = "none"]_vars

\* the shutdown has asked the observer of a task to stop while the executor
\* of that task is running, and waits in the join
C27_Witness ==
    /\ mainpc = "stop_tasks"
    /\ \E i \in ObjIds : objs[i].observer = "stopping" /\ objs[i].run # "none"


\* C29: the tasks do not wait for each other. While the executor of another
\* task is running (its initial sync in the thread of the pass included), a
\* task with its observer alive, no run of its own and a file event queued
\* can take the event at any clock reading a debounce interval after its
\* last sync, and that starts its own executor run; and a step that takes or
\* queues an event of one task leaves the handler (last_sync, sync_pending,
\* sync_in_progress) and the run of every other task as they are.
C29_CrossTaskIndependence ==
    /\ [](\A i \in ObjIds :
            (/\ objs[i].observer = "alive" /\ objs[i].run = "none" /\ objs[i].evq > 0
             /\ \E j \in ObjIds \ {i} : objs[j].run # "none")
            => \A tm \in ClockReadings :
                  tm - objs[i].handler.last_sync >= objs[i].handler.debounce_time
                  => ENABLED (ObsDispatch(i, tm) /\ objs'[i].run = "event"))
    /\ [][\A i \in ObjIds :
            objs'[i].evq # objs[i].evq
            => \A j \in ObjIds \ {i} :
                  objs'[j].handler = objs[j].handler /\ objs'[j].run = objs[j].run]_vars

\* a change-triggered run of one task and the initial sync of another task,
\* which the pass is starting under the lock, are in flight together
C29_Witness ==
    \E i \in ObjIds, j \in ObjIds :
        /\ i # j
        /\ objs[i].run = "event" /\ objs[i].observer = "alive"
        /\ objs[j].run = "initial" /\ lock # "free"


\* C31: when start() of a task does not get as far as the initial sync (the
\* watch setup failed: the directory is missing or unreadable, the executor's
\* version check failed, a required field is not in the entry), the task is
\* not running and its status snapshot has last_error set and error_count >= 1.
C31_SetupFailureRecorded ==
    [][\A t \in RThreads :
          (rc[t].pc = "start" /\ rc'[t].pc = "update")
          => LET st == TaskStatus(objs'[tasks'[NameSeq[rc[t].k]]])
             IN  ~st.running /\ st.last_error /\ st.error_count >= 1]_vars


\* the config-file events on_modified has handled, and the times at which
\* the config-file events so far were written
CfgHandled == {k \in 1..Len(wlog) : wlog[k].file = "config"}
CfgTimes == {wlog[k].at : k \in CfgHandled} \cup {wq[k].at : k \in {j \in 1..Len(wq) : wq[j].file = "config"}}

\* C33: when the modifications of the config file so far lie less than the
\* debounce window apart and on_modified has handled them all, exactly one
\* of them has led to a call of reload_config; and no modification of
\* another file of the directory has.
C33_WatcherCoalescing ==
    /\ (/\ CfgHandled # {}
        /\ \A x \in CfgTimes, y \in CfgTimes : x - y < CfgDebounce
        /\ \A k \in 1..Len(wq) : wq[k].file # "config")
       => Cardinality({k \in CfgHandled : wlog[k].trigger}) = 1
    /\ \A k \in 1..Len(wlog) : wlog[k].file = "other" => ~wlog[k].trigger

\* the registry is what a pass over the config cfg leaves
Matches(cfg) ==
    \A n \in Names :
        /\ tasks[n] # 0 => cfg[n] # NoConfig /\ objs[tasks[n]].config = cfg[n]
        /\ (cfg[n] # NoConfig /\ cfg[n].status # "paused") => tasks[n] # 0

\* C35: when the running daemon has nothing left to do (no modification event
\* waits, no thread is in a pass), the last pass has read the config file as
\* it is now: the registry matches the file.
C35_FinalConfigApplied ==
    (/\ mainpc = "run" /\ running
     /\ wq = <<>>
     /\ \A t \in RThreads : rc[t].pc = "idle")
    => Matches(config)

\* C18 (the registry lock is never held across an executor invocation): no
\* thread that holds the registry lock has an executor run in flight in a
\* task it is starting.
C18_NoExecUnderLock ==
    \A t \in RThreads :
        ~(/\ lock = t
          /\ rc[t].pc = "initsync"
          /\ objs[rc[t].cur].run = "initial")

\* ----------------------------------------------------------------- SpecSup
\* The daemon's threads around the registry lock, for one task name: the
\* passes of reload_config in the main thread and in the config watcher's
\* thread, the health-check thread, and a thread asking for the status.
\* No file events: every executor run is a task's initial sync.

SupNames == {"a"}

InitSup == InitMainVars(SupNames) /\ InitHandlerVars /\ InitProcVars /\ InitWatchVars

\* _health_check_loop, line 370, the first test of the loop condition by the
\* thread that initialize() started (lines 236-237): it races with line 252
HealthBegin ==
    /\ health = "started"
    /\ health' = IF running THEN "on" ELSE "ended"
    /\ UNCHANGED <<config, cfgEvents, running, mainpc, lock, rc, tasks, objs, orphans, pre, lastStatus, cfgfile, cliw, vars_h, vars_p, vars_w>>

\* _health_check_loop, lines 370-374, one round: under the lock, check_health()
\* is called on each registered task. SyncTask has no such method: the first
\* call raises AttributeError, which nothing catches, and the thread ends
\* (the with statement releases the lock). With no task registered the round
\* does nothing.
HealthCheck ==
    /\ health = "on"
    /\ lock = "free"
    /\ health' = IF ~running THEN "ended"
                 ELSE IF \E n \in Names : tasks[n] # 0 THEN "dead"
                 ELSE "on"
    /\ UNCHANGED <<config, cfgEvents, running, mainpc, lock, rc, tasks, objs, orphans, pre, lastStatus, cfgfile, cliw, vars_h, vars_p, vars_w>>

\* (faulty variant) the status is read without the lock
StatusNoLock(l) == TRUE

\* get_status, line 427: with self.lock
StatusLock(l) == l = "free"

\* the pass of thread t has changed the registry or a watcher and has not
\* finished its loops
Partial(t) == lock = t /\ ~PassDone(t) /\ Snapshot(tasks, objs) # pre

\* SyncManager.get_status is called in a thread of its own, line 425. Recorded
\* of the call: whether a pass was part-way through the registry when it was
\* made (conc)
StatusCall ==
    /\ ~lastStatus.pend
    /\ lastStatus' = [mid |-> FALSE,
                      conc |-> \E t \in RThreads : Partial(t),
                      asked |-> FALSE,
                      pend |-> TRUE]
    /\ UNCHANGED <<config, cfgEvents, running, mainpc, lock, rc, tasks, objs, orphans, pre, health, cfgfile, cliw, vars_h, vars_p, vars_w>>

\* SyncManager.get_status, lines 427-431: the registry is read under the lock.
\* Recorded of the registry it read: whether a pass was part-way through it
\* (mid)
StatusQuery ==
    /\ lastStatus.pend
    /\ StatusLock(lock)
    /\ lastStatus' = [lastStatus EXCEPT !.mid = \E t \in RThreads : Partial(t),
                                        !.asked = TRUE,
                                        !.pend = FALSE]
    /\ UNCHANGED <<config, cfgEvents, running, mainpc, lock, rc, tasks, objs, orphans, pre, health, cfgfile, cliw, vars_h, vars_p, vars_w>>

NextSup ==
    \/ \E n \in Names, d \in Dirs : CliAdd(n, d)
    \/ \E n \in Names : CliRemove(n)
    \/ \E n \in Names : CliPause(n)
    \/ \E n \in Names : CliResume(n)
    \/ ManagerStart
    \/ \E elapsed \in BOOLEAN : ConfigModified(elapsed)
    \/ \E t \in RThreads : ReloadLock(t)
    \/ \E t \in RThreads : RemoveStep(t)
    \/ \E t \in RThreads : UpdateStep(t)
    \/ \E t \in RThreads, outcome \in {"raise", "run"} : StartStep(t, outcome)
    \/ \E t \in RThreads, outcome \in {"ok", "fail"} : InitSyncDone(t, outcome)
    \/ \E t \in RThreads : ReloadReturn(t)
    \/ HealthBegin
    \/ HealthCheck
    \/ StatusCall
    \/ StatusQuery

SpecSup == InitSup /\ [][NextSup]_vars

\* the steps thread t takes by itself inside reload_config
PassStep(t) ==
    \/ ReloadLock(t)
    \/ RemoveStep(t)
    \/ UpdateStep(t)
    \/ \E outcome \in {"raise", "run"} : StartStep(t, outcome)
    \/ \E outcome \in {"ok", "fail"} : InitSyncDone(t, outcome)
    \/ ReloadReturn(t)

\* the threads with the scheduler's guarantee; nothing is assumed of the CLI
SpecSupFair ==
    /\ SpecSup
    /\ WF_vars(ManagerStart)
    /\ WF_vars(\E elapsed \in BOOLEAN : ConfigModified(elapsed))
    /\ \A t \in RThreads : WF_vars(PassStep(t))
    /\ WF_vars(HealthBegin)
    /\ WF_vars(HealthCheck)

\* ------------------------------------------- properties of the supervisor

\* the daemon is running and n is registered, not paused, with no watcher
\* and a restart counter of zero (below the maximum)
NeedsRestart(n) ==
    /\ running
    /\ tasks[n] # 0
    /\ objs[tasks[n]].config.status = "active"
    /\ objs[tasks[n]].observer = "None"
    /\ objs[tasks[n]].run = "none"
    /\ objs[tasks[n]].restart_count = 0

\* C16 (health-driven restart): a registered, non-paused task whose watcher
\* is not alive is eventually restarted with its restart counter incremented
\* (or, meanwhile, is removed, paused or replaced by a pass).
C16_HealthRestart ==
    \A n \in SupNames :
        NeedsRestart(n) ~>
            (\/ tasks[n] = 0
             \/ objs[tasks[n]].config.status # "active"
             \/ objs[tasks[n]].observer # "None"
             \/ objs[tasks[n]].restart_count > 0)

InitCfg == InitMainVars({"a"}) /\ InitHandlerVars /\ InitProcVars /\ InitWatchVars

\* cli.load_config, lines 57-67: a missing file, or one that json.load
\* rejects, is read as no syncs
CliLoad == IF cfgfile = "whole" THEN config ELSE [n \in Names |-> NoConfig]

\* the observer of the config directory reports a modification; an event that
\* finds MaxCfgEvents waiting is taken as one the ConfigWatcher's debounce
\* (line 93) drops
Modified == cfgEvents' = IF cfgEvents < MaxCfgEvents THEN cfgEvents + 1 ELSE cfgEvents

\* cli.save_config, line 73: open(CONFIG_FILE, 'w') empties the file in place
SaveOpen(new) ==
    /\ ~cliw.busy
    /\ cliw' = [busy |-> TRUE, doc |-> new]
    /\ cfgfile' = "cut"
    /\ Modified
    /\ UNCHANGED <<config, running, mainpc, lock, rc, tasks, objs, orphans, pre, health, lastStatus, vars_h, vars_p, vars_w>>

\* cli.save_config, line 74 and the end of the with block: json.dump writes
\* the document and the file is closed
SaveDump ==
    /\ cliw.busy
    /\ config' = cliw.doc
    /\ cfgfile' = "whole"
    /\ cliw' = NoSave
    /\ Modified
    /\ UNCHANGED <<running, mainpc, lock, rc, tasks, objs, orphans, pre, health, lastStatus, vars_h, vars_p, vars_w>>

\* cli.add_sync, lines 220-237
CfgAdd(n, d) ==
    /\ CliLoad[n] = NoConfig
    /\ SaveOpen([CliLoad EXCEPT ![n] = [local_dir |-> d, status |-> "active"]])

\* cli.remove_sync, lines 311-320
CfgRemove(n) ==
    /\ CliLoad[n] # NoConfig
    /\ SaveOpen([CliLoad EXCEPT ![n] = NoConfig])

\* cli.pause_sync, lines 911-932
CfgPause(n) ==
    /\ CliLoad[n] # NoConfig
    /\ CliLoad[n].status # "paused"
    /\ SaveOpen([CliLoad EXCEPT ![n].status = "paused"])

\* cli.resume_sync, lines 935-949
CfgResume(n) ==
    /\ CliLoad[n] # NoConfig
    /\ CliLoad[n].status # "active"
    /\ SaveOpen([CliLoad EXCEPT ![n].status = "active"])

\* the environment: something other than the CLI leaves the file with a text
\* that is no JSON document (what: "garbage"), or removes the file ("missing")
Damage(what) ==
    /\ ~cliw.busy
    /\ cfgfile = "whole"
    /\ what \in {"garbage", "missing"}
    /\ cfgfile' = what
    /\ Modified
    /\ UNCHANGED <<config, running, mainpc, lock, rc, tasks, objs, orphans, pre, health, lastStatus, cliw, vars_h, vars_p, vars_w>>

NextCfg ==
    \/ \E n \in Names : CfgAdd(n, "d1")
    \/ \E n \in Names : CfgRemove(n)
    \/ \E n \in Names : CfgPause(n)
    \/ \E n \in Names : CfgResume(n)
    \/ SaveDump
    \/ \E what \in {"garbage", "missing"} : Damage(what)
    \/ ManagerStart
    \/ \E elapsed \in BOOLEAN : ConfigModified(elapsed)
    \/ \E t \in RThreads : ReloadLock(t)
    \/ \E t \in RThreads : RemoveStep(t)
    \/ \E t \in RThreads : UpdateStep(t)
    \/ \E t \in RThreads, outcome \in {"raise", "run"} : StartStep(t, outcome)
    \/ \E t \in RThreads, outcome \in {"ok", "fail"} : InitSyncDone(t, outcome)
    \/ \E t \in RThreads : ReloadReturn(t)

SpecCfg == InitCfg /\ [][NextCfg]_vars

\* --------------------------------------------- properties of the config file

\* thread t calls reload_config while the manager is running
ReloadCalled(t) ==
    /\ running'
    /\ IF t = "main" THEN ManagerStart ELSE ConfigModified(TRUE)

\* no pass is under way
NoPass == lock = "free" /\ \A t \in RThreads : rc[t].pc = "idle"

\* C19 (a malformed config falls back to the empty task set): when a reload,
\* with no other pass under way, finds the config file malformed, then once
\* the reload has returned the registry is empty and no watcher is alive.
C19_MalformedFallsBack ==
    [][\A t \in RThreads :
          (/\ NoPass
           /\ cfgfile \in {"cut", "garbage"}
           /\ ReloadCalled(t)
           /\ rc'[t].pc = "idle")
          => /\ \A n \in Names : tasks'[n] = 0
             /\ \A i \in ObjIds : objs'[i].observer # "alive"]_vars

\* C20 (atomic config save): no reload of the daemon reads the config file
\* while a save of the CLI has emptied it and not yet written its document.
C20_AtomicSave ==
    [][\A t \in RThreads : ReloadCalled(t) => ~(cliw.busy /\ cfgfile = "cut")]_vars

\* ------------------------------------------- properties of the ChangeHandler

\* C15 (mode selects the executor call): every executor run of a task the CLI
\* added with mode upload is the one-way call (rclone sync), and every run of
\* a task added with mode bidirectional is the two-way call (rclone bisync).
C15_ModeSelectsCall ==
    \A k \in 1..Len(hist) :
        hist[k].type = "run" =>
            hist[k].prog = (IF hcfg.mode = "upload" THEN "sync" ELSE "bisync")


EvIdx == {k \in 1..Len(hist) : hist[k].type = "ev"}
\* the executor runs a file change caused (not the initial sync)
ChangeRunIdx == {k \in 1..Len(hist) : hist[k].type = "run" /\ hist[k].cause # "initial"}
EndIdx == {k \in 1..Len(hist) : hist[k].type = "end"}
\* the observer thread is idle and no event waits
Quiescent == observing /\ hrun = "none" /\ evq = <<>>
\* the end of the run that starts at k
EndOf(k) == CHOOSE j \in EndIdx : j > k /\ \A i \in EndIdx : i > k => j <= i
LastEvAt == CHOOSE t \in {hist[k].at : k \in EvIdx} : \A k \in EvIdx : hist[k].at <= t

\* C2 (coalescing): when all the relevant events seen so far arrived within
\* one debounce window, they cause at most one executor run, and exactly one
\* once the window has passed and the handler is at rest.
C2_Coalescing ==
    (/\ EvIdx # {}
     /\ \A i, j \in EvIdx : hist[i].at - hist[j].at < Debounce)
    => /\ Cardinality(ChangeRunIdx) <= 1
       /\ (Quiescent /\ now >= LastEvAt + Debounce) => Cardinality(ChangeRunIdx) = 1

\* C3 (pending resync): when relevant events arrived while a run was in
\* flight and none arrived after it ended, then once the handler is at rest
\* exactly one further run has been started after that run's end.
C3_PendingResync ==
    \A k \in 1..Len(hist) :
        (/\ hist[k].type = "run"
         /\ \E j \in EndIdx : j > k
         /\ Quiescent
         /\ \E e \in EvIdx : k < e /\ e < EndOf(k)
         /\ \A e \in EvIdx : e < EndOf(k))
        => Cardinality({r \in ChangeRunIdx : r > EndOf(k)}) = 1

\* C4 (trailing-edge debounce): a change-triggered run starts only when at
\* least the debounce interval has passed since the most recent relevant
\* event.
C4_TrailingEdge ==
    \A r \in ChangeRunIdx : \A e \in EvIdx :
        e < r => hist[r].at - hist[e].at >= Debounce

\* (auxiliary) the chained resync of sync_directory is never taken: when the
\* executor returns, sync_pending is false
NoChainedRun == hrun # "chained"


\* the executor runs of the task, in the order they were started
RunIdx == {k \in 1..Len(hist) : hist[k].type = "run"}

\* C32: of the executor runs of a task the CLI added, the first one after the
\* start carries --resync when the task's mode is bidirectional, and no
\* other run does: no later run of the task, and no run of an upload task.
C32_ResyncOnlyFirst ==
    \A k \in RunIdx :
        hist[k].resync = (hcfg.mode = "bidirectional" /\ \A j \in RunIdx : k <= j)

====
